---- MODULE Spec2Model ----
(***************************************************************************)
(* Model of the calibur aim-and-fire pipeline (RMUC_CV_2026_CPP).          *)
(*                                                                         *)
(* Part I   the shared latest-value registry (SharedLatest) and the five   *)
(*          worker loops that publish to it and read from it, as an        *)
(*          interleaving of their shared-memory accesses.                  *)
(* Part II  the Detection worker's per-frame algorithms (select_armor,     *)
(*          cam2world, form_robot, from_one_armor) run frame after frame.  *)
(* Part III the helper functions of helper.hpp and the workers, applied   *)
(*          to arguments.                                                  *)
(***************************************************************************)
EXTENDS Integers, Sequences, FiniteSets, TLC

(***************************************************************************)
(* Bounds of the model.                                                    *)
(***************************************************************************)
\* camera frames published
MaxCam == 1
\* IMU samples published
MaxImu == 1
\* particle-filter ticks
MaxTick == 2
\* values of the steady clock
MaxClock == 2

VARIABLES
    slot,      \* SharedLatest handles: slot[s] = [ptr, ctl], the two words of a shared_ptr
    ver,       \* SharedLatest version counters
    heap,      \* heap[s][n]: the snapshot allocated for the n-th publish to slot s
    clock,     \* Clock::now()
    stop,      \* the process-wide stop flag
    pfImpl,    \* which PFWorker::operator() is built: "pf_worker" or "part_001"
    pc,        \* position of every worker in its loop
    det,       \* DetectionWorker locals: last_cam_ver_, cur_ver, cam, imu
    pfw,       \* PFWorker locals: last_det_ver_, det_ver, has_new_det, det_ptr, has_meas, meas, ops
    g_pf,      \* the particle-filter kernel: timestamp of its mean
    pred,      \* PredictionWorker locals: last_pf_ver_, cur_ver, pf, imu
    fstep,     \* Part II: position of the Detection worker within its frame
    frame,     \* the camera frame being processed: its timestamp
    grouped_armors, \* the groups group_armors leaves for the frame
    sel,       \* ttl_, selected_robot_id_ and selected_armors
    gimbal,    \* imu_yaw and imu_pitch
    prev,      \* has_prev_robot_ (has_init: it has been given a value) and prev_robot_
    robot,     \* the RobotState form_robot returned for the frame, stamped
    run,       \* the empty frames the selector has been given in a row
    call,      \* Part III: a helper function applied to arguments, and what it returned
    lead,      \* compute_prediction: members, arguments, t_lead, pos_lead, iter
    prog,      \* the USB test program: main's position and locals, the device, the log
    config,    \* sylar::Config: the registered variables, their listeners, the calls made
    logmgr,    \* sylar::LoggerManager: the loggers, the appenders, what was written
    timer,     \* the PF worker's tick loop against the steady clock, in milliseconds
    usb,       \* a USBCommunication object: fd_, is_open_, the last call and its result
    pool       \* a ThreadPool: tasks_, stop_, the workers, the caller's position

regVars == <<slot, ver, heap, clock, stop, pfImpl, pc, det, pfw, g_pf, pred>>
algVars == <<fstep, frame, grouped_armors, sel, gimbal, prev, robot, run>>
extVars == <<call, lead, prog, config, logmgr, timer, usb, pool>>
vars == <<slot, ver, heap, clock, stop, pfImpl, pc, det, pfw, g_pf, pred,
          fstep, frame, grouped_armors, sel, gimbal, prev, robot, run, call, lead, prog,
          config, logmgr, timer, usb, pool>>

Slots == {"camera", "imu", "detection_out", "pf_out", "prediction_out"}
Workers == {"camera", "imu", "detection", "pf", "prediction"}
PFImpls == {"pf_worker", "part_001"}

PF_STATE_NORMAL == "NORMAL"
PF_STATE_RESET == "RESET"
PfStates == {PF_STATE_NORMAL, PF_STATE_RESET}

\* a shared_ptr is two words: the object pointer and the control block
NullHandle == [ptr |-> 0, ctl |-> 0]
Handle(n) == [ptr |-> n, ctl |-> n]
Torn(h) == h.ptr # h.ctl

\* an allocation that reuses the slot's newest cell
make_shared_inplace(h, s, val) ==
    IF Len(h[s]) = 0 THEN [h EXCEPT ![s] = Append(@, val)]
    ELSE [h EXCEPT ![s][Len(h[s])] = val]
\* std::make_shared: a freshly allocated cell holding val
make_shared(h, s, val) == [h EXCEPT ![s] = Append(@, val)]

\* std::atomic_store(&shared_.x, ptr): both words in one step
atomic_store(sl, s, n) == [sl EXCEPT ![s] = Handle(n)]
\* std::atomic_load(&shared_.x)
atomic_load(sl, s) == sl[s]
\* an increment that is lost
fetch_add_lost(v, s) == v
\* x_ver.fetch_add(1)
fetch_add(v, s) == [v EXCEPT ![s] = @ + 1]

\* Clock::now() reads the steady clock
Now == {clock}

(***************************************************************************)
(* Part I: SharedLatest and the worker loops.                              *)
(***************************************************************************)
InitReg ==
    /\ slot = [s \in Slots |-> NullHandle]
    /\ ver = [s \in Slots |-> 0]
    /\ heap = [s \in Slots |-> << >>]
    /\ clock = 1
    /\ stop = FALSE
    /\ pfImpl \in PFImpls
    /\ pc = [camera |-> "store", imu |-> "store", detection |-> "ver",
             pf |-> "top", prediction |-> "ver"]
    /\ det = [last_cam_ver_ |-> 0, cur_ver |-> 0, cam |-> NullHandle, imu |-> NullHandle]
    /\ pfw = [last_det_ver_ |-> 0, det_ver |-> 0, has_new_det |-> FALSE,
              det_ptr |-> NullHandle, has_meas |-> FALSE, meas |-> 0, ops |-> << >>]
    /\ g_pf = [timestamp |-> 0]
    /\ pred = [last_pf_ver_ |-> 0, cur_ver |-> 0, pf |-> NullHandle, imu |-> NullHandle]

Goto(w, l) == pc' = [pc EXCEPT ![w] = l]

\* main sets the stop flag
SetStop ==
    /\ ~stop
    /\ stop' = TRUE
    /\ UNCHANGED <<slot, ver, heap, clock, pfImpl, pc, det, pfw, g_pf, pred>>
    /\ UNCHANGED <<algVars, extVars>>

\* a loop whose condition does not read stop: it comes back to its top
WorkerSpin(w, top) ==
    /\ pc[w] = top
    /\ stop
    /\ Goto(w, top)
    /\ UNCHANGED <<slot, ver, heap, clock, stop, pfImpl, det, pfw, g_pf, pred>>
    /\ UNCHANGED <<algVars, extVars>>

\* a worker leaves its loop at the iteration boundary once stop is set
WorkerExit(w, top) ==
    /\ pc[w] = top
    /\ stop
    /\ Goto(w, "done")
    /\ UNCHANGED <<slot, ver, heap, clock, stop, pfImpl, det, pfw, g_pf, pred>>
    /\ UNCHANGED <<algVars, extVars>>

\* time passes: the steady clock never goes back
Tick ==
    /\ clock < MaxClock
    /\ clock' = clock + 1
    /\ UNCHANGED <<slot, ver, heap, stop, pfImpl, pc, det, pfw, g_pf, pred>>
    /\ UNCHANGED <<algVars, extVars>>

---------------------------------------------------------------------------
\* CameraWorker::operator(): grab_frame_stub, make_shared, atomic_store
CameraPublish ==
    /\ pc.camera = "store"
    /\ ~stop
    /\ ver.camera < MaxCam
    /\ \E t \in Now :
         /\ clock' = t
         /\ heap' = make_shared(heap, "camera", [timestamp |-> t])
    /\ slot' = atomic_store(slot, "camera", Len(heap'.camera))
    /\ Goto("camera", "bump")
    /\ UNCHANGED <<ver, stop, pfImpl, det, pfw, g_pf, pred>>
    /\ UNCHANGED <<algVars, extVars>>

CameraBump ==
    /\ pc.camera = "bump"
    /\ ver' = fetch_add(ver, "camera")
    /\ Goto("camera", "store")
    /\ UNCHANGED <<slot, heap, clock, stop, pfImpl, det, pfw, g_pf, pred>>
    /\ UNCHANGED <<algVars, extVars>>

CameraExit == WorkerExit("camera", "store")

---------------------------------------------------------------------------
\* IMUWorker::operator(): a failed read_imu retries without publishing
IMURetry ==
    /\ pc.imu = "store"
    /\ ~stop
    /\ UNCHANGED regVars
    /\ UNCHANGED <<algVars, extVars>>

IMUPublish ==
    /\ pc.imu = "store"
    /\ ~stop
    /\ ver.imu < MaxImu
    /\ \E t \in Now :
         /\ clock' = t
         /\ heap' = make_shared(heap, "imu", [timestamp |-> t])
    /\ slot' = atomic_store(slot, "imu", Len(heap'.imu))
    /\ Goto("imu", "bump")
    /\ UNCHANGED <<ver, stop, pfImpl, det, pfw, g_pf, pred>>
    /\ UNCHANGED <<algVars, extVars>>

IMUBump ==
    /\ pc.imu = "bump"
    /\ ver' = fetch_add(ver, "imu")
    /\ Goto("imu", "store")
    /\ UNCHANGED <<slot, heap, clock, stop, pfImpl, det, pfw, g_pf, pred>>
    /\ UNCHANGED <<algVars, extVars>>

IMUExit == WorkerExit("imu", "store")

---------------------------------------------------------------------------
\* DetectionWorker::operator()
\* a version load that goes on to process whatever it read
DetLoadVerAlways ==
    /\ pc.detection = "ver"
    /\ ~stop
    /\ det' = [det EXCEPT !.cur_ver = ver.camera, !.last_cam_ver_ = ver.camera]
    /\ Goto("detection", "cam")
    /\ UNCHANGED <<slot, ver, heap, clock, stop, pfImpl, pfw, g_pf, pred>>
    /\ UNCHANGED <<algVars, extVars>>

\* camera_ver.load; unchanged version: sleep_small and continue
DetLoadVer ==
    /\ pc.detection = "ver"
    /\ ~stop
    /\ LET cur == ver.camera IN
         IF cur = det.last_cam_ver_
         THEN /\ det' = [det EXCEPT !.cur_ver = cur]
              /\ UNCHANGED pc
         ELSE /\ det' = [det EXCEPT !.cur_ver = cur, !.last_cam_ver_ = cur]
              /\ Goto("detection", "cam")
    /\ UNCHANGED <<slot, ver, heap, clock, stop, pfImpl, pfw, g_pf, pred>>
    /\ UNCHANGED <<algVars, extVars>>

\* cam = atomic_load(&shared_.camera); absent: sleep_small and continue
DetLoadCam ==
    /\ pc.detection = "cam"
    /\ LET cam == atomic_load(slot, "camera") IN
         /\ det' = [det EXCEPT !.cam = cam]
         /\ Goto("detection", IF cam.ptr = 0 THEN "ver" ELSE "imu")
    /\ UNCHANGED <<slot, ver, heap, clock, stop, pfImpl, pfw, g_pf, pred>>
    /\ UNCHANGED <<algVars, extVars>>

\* imu = atomic_load(&shared_.imu)
DetLoadImu ==
    /\ pc.detection = "imu"
    /\ det' = [det EXCEPT !.imu = atomic_load(slot, "imu")]
    /\ Goto("detection", "imu2")
    /\ UNCHANGED <<slot, ver, heap, clock, stop, pfImpl, pfw, g_pf, pred>>
    /\ UNCHANGED <<algVars, extVars>>

\* get_imu_yaw_pitch loads shared.imu again
DetLoadImu2 ==
    /\ pc.detection = "imu2"
    /\ det' = [det EXCEPT !.imu = atomic_load(slot, "imu")]
    /\ Goto("detection", "store")
    /\ UNCHANGED <<slot, ver, heap, clock, stop, pfImpl, pfw, g_pf, pred>>
    /\ UNCHANGED <<algVars, extVars>>

\* form_robot returned no robot: nothing is published
DetNoRobot ==
    /\ pc.detection = "store"
    /\ det' = [det EXCEPT !.cam = NullHandle, !.imu = NullHandle]
    /\ Goto("detection", "ver")
    /\ UNCHANGED <<slot, ver, heap, clock, stop, pfImpl, pfw, g_pf, pred>>
    /\ UNCHANGED <<algVars, extVars>>

\* robot->timestamp = cam->timestamp; make_shared<RobotState>(*robot); atomic_store
DetPublish ==
    /\ pc.detection = "store"
    /\ \E pfs \in PfStates :
         heap' = make_shared(heap, "detection_out",
                    [timestamp |-> heap.camera[det.cam.ptr].timestamp,
                     pf_state |-> pfs, cam |-> det.cam.ptr])
    /\ slot' = atomic_store(slot, "detection_out", Len(heap'.detection_out))
    /\ Goto("detection", "bump")
    /\ UNCHANGED <<ver, clock, stop, pfImpl, det, pfw, g_pf, pred>>
    /\ UNCHANGED <<algVars, extVars>>

DetBump ==
    /\ pc.detection = "bump"
    /\ ver' = fetch_add(ver, "detection_out")
    /\ det' = [det EXCEPT !.cam = NullHandle, !.imu = NullHandle]
    /\ Goto("detection", "ver")
    /\ UNCHANGED <<slot, heap, clock, stop, pfImpl, pfw, g_pf, pred>>
    /\ UNCHANGED <<algVars, extVars>>

\* a whole iteration of Detection on a further camera frame, up to its
\* atomic_store: the frames, the selector and the reconstruction are left out
MaxDet == 2
DetPublishNext ==
    /\ pc.detection = "ver"
    /\ ~stop
    /\ Len(heap.detection_out) < MaxDet
    /\ \E pfs \in PfStates :
         heap' = make_shared(heap, "detection_out",
                    [timestamp |-> clock, pf_state |-> pfs, cam |-> 0])
    /\ slot' = atomic_store(slot, "detection_out", Len(heap'.detection_out))
    /\ Goto("detection", "bump")
    /\ UNCHANGED <<ver, clock, stop, pfImpl, det, pfw, g_pf, pred>>
    /\ UNCHANGED <<algVars, extVars>>

DetExit == WorkerExit("detection", "ver")

---------------------------------------------------------------------------
\* PFWorker::operator(), in both files that define it.
\* The kernel (rbpf.cuh) is opaque: its mean carries the timestamp of the
\* last measurement it was given.
gpu_pf_step(k, meas) == [k EXCEPT !.timestamp = meas.timestamp]
gpu_pf_predict_only(k) == k

\* detection_ver.load and the comparison with last_det_ver_
\* (part_001 sets last_det_ver_ here, before it loads the handle)
PfLoadVer ==
    /\ pc.pf = "top"
    /\ ~stop
    /\ ver.pf_out < MaxTick
    /\ LET cur == ver.detection_out
           new == cur # pfw.last_det_ver_ IN
         /\ pfw' = [pfw EXCEPT !.det_ver = cur,
                               !.has_new_det = new,
                               !.det_ptr = NullHandle,
                               !.has_meas = FALSE,
                               !.meas = 0,
                               !.ops = << >>,
                               !.last_det_ver_ =
                                   IF pfImpl = "part_001" /\ new THEN cur ELSE @]
         /\ Goto("pf", IF new THEN "read" ELSE "store")
    /\ UNCHANGED <<slot, ver, heap, clock, stop, pfImpl, det, g_pf, pred>>
    /\ UNCHANGED <<algVars, extVars>>

\* part_001: det_ptr = std::atomic_load(&shared_.detection_out)
PfAtomicLoad ==
    /\ pc.pf = "read"
    /\ pfImpl = "part_001"
    /\ LET h == atomic_load(slot, "detection_out") IN
         pfw' = [pfw EXCEPT !.det_ptr = h, !.has_meas = (h.ptr # 0), !.meas = h.ptr]
    /\ Goto("pf", "store")
    /\ UNCHANGED <<slot, ver, heap, clock, stop, pfImpl, det, g_pf, pred>>
    /\ UNCHANGED <<algVars, extVars>>

\* pf_worker.cpp: auto det_ptr = shared_.detection_out, a plain copy of a
\* shared_ptr another thread stores to: the two words are read one by one
PfPlainReadPtr ==
    /\ pc.pf = "read"
    /\ pfImpl = "pf_worker"
    /\ pfw' = [pfw EXCEPT !.det_ptr.ptr = slot.detection_out.ptr]
    /\ Goto("pf", "read2")
    /\ UNCHANGED <<slot, ver, heap, clock, stop, pfImpl, det, g_pf, pred>>
    /\ UNCHANGED <<algVars, extVars>>

\* ... then if (det_ptr) { meas = *det_ptr; last_det_ver_ = det_ver; has_meas = true; }
PfPlainReadCtl ==
    /\ pc.pf = "read2"
    /\ LET p == pfw.det_ptr.ptr IN
         pfw' = [pfw EXCEPT !.det_ptr.ctl = slot.detection_out.ctl,
                            !.has_meas = (p # 0),
                            !.meas = p,
                            !.last_det_ver_ = IF p # 0 THEN pfw.det_ver ELSE @]
    /\ Goto("pf", "store")
    /\ UNCHANGED <<slot, ver, heap, clock, stop, pfImpl, det, g_pf, pred>>
    /\ UNCHANGED <<algVars, extVars>>

\* part_001: reset on PF_STATE_RESET, step or predict-only, out.timestamp =
\* Clock::now(), make_shared, atomic_store
PfStepAtomicStore ==
    /\ pc.pf = "store"
    /\ pfImpl = "part_001"
    /\ LET m == IF pfw.has_meas THEN heap.detection_out[pfw.meas] ELSE [timestamp |-> 0]
           ops == IF ~pfw.has_meas THEN <<"predict">>
                  ELSE IF m.pf_state = PF_STATE_RESET THEN <<"reset", "step">>
                  ELSE <<"step">> IN
         /\ pfw' = [pfw EXCEPT !.ops = ops]
         /\ \E t \in Now :
              /\ clock' = t
              /\ heap' = make_shared(heap, "pf_out", [timestamp |-> t, meas |-> pfw.meas])
    /\ slot' = atomic_store(slot, "pf_out", Len(heap'.pf_out))
    /\ UNCHANGED g_pf
    /\ Goto("pf", "bump")
    /\ UNCHANGED <<ver, stop, pfImpl, det, pred>>
    /\ UNCHANGED <<algVars, extVars>>

\* pf_worker.cpp: gpu_pf_step or gpu_pf_predict_only, then
\* shared_.pf_out = std::make_shared<RobotState>(pf_state), a plain
\* assignment: the pointer word is written first
PfStepPlainStorePtr ==
    /\ pc.pf = "store"
    /\ pfImpl = "pf_worker"
    /\ g_pf' = IF pfw.has_meas THEN gpu_pf_step(g_pf, heap.detection_out[pfw.meas])
               ELSE gpu_pf_predict_only(g_pf)
    /\ pfw' = [pfw EXCEPT !.ops = IF pfw.has_meas THEN <<"step">> ELSE <<"predict">>]
    /\ heap' = make_shared(heap, "pf_out",
                   [timestamp |-> g_pf'.timestamp, meas |-> pfw.meas])
    /\ slot' = [slot EXCEPT !.pf_out.ptr = Len(heap'.pf_out)]
    /\ Goto("pf", "store2")
    /\ UNCHANGED <<ver, clock, stop, pfImpl, det, pred>>
    /\ UNCHANGED <<algVars, extVars>>

\* ... and the control-block word second
PfPlainStoreCtl ==
    /\ pc.pf = "store2"
    /\ slot' = [slot EXCEPT !.pf_out.ctl = slot.pf_out.ptr]
    /\ Goto("pf", "bump")
    /\ UNCHANGED <<ver, heap, clock, stop, pfImpl, det, pfw, g_pf, pred>>
    /\ UNCHANGED <<algVars, extVars>>

PfBump ==
    /\ pc.pf = "bump"
    /\ ver' = fetch_add(ver, "pf_out")
    /\ pfw' = [pfw EXCEPT !.has_new_det = FALSE, !.det_ptr = NullHandle,
                          !.has_meas = FALSE, !.meas = 0, !.ops = << >>]
    /\ Goto("pf", "top")
    /\ UNCHANGED <<slot, heap, clock, stop, pfImpl, det, g_pf, pred>>
    /\ UNCHANGED <<algVars, extVars>>

PfExit == WorkerExit("pf", "top")

---------------------------------------------------------------------------
\* PredictionWorker::operator()
PredLoadVer ==
    /\ pc.prediction = "ver"
    /\ ~stop
    /\ LET cur == ver.pf_out IN
         IF cur = pred.last_pf_ver_
         THEN /\ pred' = [pred EXCEPT !.cur_ver = cur]
              /\ UNCHANGED pc
         ELSE /\ pred' = [pred EXCEPT !.cur_ver = cur, !.last_pf_ver_ = cur]
              /\ Goto("prediction", "pf")
    /\ UNCHANGED <<slot, ver, heap, clock, stop, pfImpl, det, pfw, g_pf>>
    /\ UNCHANGED <<algVars, extVars>>

\* pf = atomic_load(&shared_.pf_out); absent: continue
PredLoadPf ==
    /\ pc.prediction = "pf"
    /\ LET pf == atomic_load(slot, "pf_out") IN
         /\ pred' = [pred EXCEPT !.pf = pf]
         /\ Goto("prediction", IF pf.ptr = 0 THEN "ver" ELSE "imu")
    /\ UNCHANGED <<slot, ver, heap, clock, stop, pfImpl, det, pfw, g_pf>>
    /\ UNCHANGED <<algVars, extVars>>

\* imu = atomic_load(&shared_.imu)
PredLoadImu ==
    /\ pc.prediction = "imu"
    /\ pred' = [pred EXCEPT !.imu = atomic_load(slot, "imu")]
    /\ Goto("prediction", "store")
    /\ UNCHANGED <<slot, ver, heap, clock, stop, pfImpl, det, pfw, g_pf>>
    /\ UNCHANGED <<algVars, extVars>>

\* PredictionOut out{}; compute_prediction; make_shared; atomic_store
PredPublish ==
    /\ pc.prediction = "store"
    /\ heap' = make_shared(heap, "prediction_out", [timestamp |-> 0, pf |-> pred.pf.ptr])
    /\ slot' = atomic_store(slot, "prediction_out", Len(heap'.prediction_out))
    /\ Goto("prediction", "bump")
    /\ UNCHANGED <<ver, clock, stop, pfImpl, det, pfw, g_pf, pred>>
    /\ UNCHANGED <<algVars, extVars>>

PredBump ==
    /\ pc.prediction = "bump"
    /\ ver' = fetch_add(ver, "prediction_out")
    /\ pred' = [pred EXCEPT !.pf = NullHandle, !.imu = NullHandle]
    /\ Goto("prediction", "ver")
    /\ UNCHANGED <<slot, heap, clock, stop, pfImpl, det, pfw, g_pf>>
    /\ UNCHANGED <<algVars, extVars>>

PredExit == WorkerExit("prediction", "ver")

---------------------------------------------------------------------------
(***************************************************************************)
(* Part II.  The Detection worker's per-frame algorithms.                  *)
(*                                                                         *)
(* Units.  Lengths are decimetres, angles are multiples of pi/64, sines and*)
(* cosines are thousandths, ttl and dt are hundredths of a second.         *)
(***************************************************************************)
\* frames fed to the Detection worker
MaxFrames == 5
\* types.hpp: the selector's time to live
SELECTOR_TTL == 6
\* types.hpp: the radius from_one_armor starts from
DEFAULT_ROBOT_RADIUS == 2

PI == 64
HALF_PI == 32
QUARTER_PI == 16
TWO_PI == 128
FLT_MAX == 1000000
MAX_TTL == SELECTOR_TTL
dt == 2

Abs(x) == IF x < 0 THEN -x ELSE x
\* float division of a thousandths product, rounding toward zero
Milli(x) == IF x < 0 THEN -((-x) \div 1000) ELSE x \div 1000
\* std::fmod: the result has the sign of x
fmod(x, m) == IF x < 0 THEN -((-x) % m) ELSE x % m
\* sin(k * pi/64) for k = 0 .. 32
SinTable ==
    <<0, 49, 98, 147, 195, 243, 290, 337, 383, 428, 471,
      514, 556, 596, 634, 672, 707, 741, 773, 803, 831, 858,
      882, 904, 924, 942, 957, 970, 981, 989, 995, 999, 1000>>
sin(a) ==
    LET m == a % TWO_PI
    IN  IF m <= HALF_PI THEN SinTable[m + 1]
        ELSE IF m <= PI THEN SinTable[PI - m + 1]
        ELSE IF m <= PI + HALF_PI THEN -SinTable[m - PI + 1]
        ELSE -SinTable[TWO_PI - m + 1]
cos(a) == sin(a + HALF_PI)
RECURSIVE SqrtFrom(_, _)
SqrtFrom(n, r) ==
    IF r = 0 THEN 0
    ELSE LET nx == (r + n \div r) \div 2
         IN  IF nx >= r THEN r ELSE SqrtFrom(n, nx)
sqrt(n) == SqrtFrom(n, n)

wrap_pi(angle) == fmod(angle + PI, TWO_PI) - PI
deg2rad(deg) == (deg * PI) \div 180

\* DetectionResult and RobotState
Armor(c, t, y) == [class_id |-> c, tvec |-> t, yaw_rad |-> y]
DefaultRobotState ==
    [state |-> [TX |-> 0, TY |-> 0, TZ |-> 0, YAW |-> 0, R1 |-> 0, R2 |-> 0],
     class_id |-> 0, timestamp |-> 0]
NoRobot == [state |-> <<>>, class_id |-> -1, timestamp |-> -1]

\* 3x3 matrices over thousandths
Transpose(M) == [i \in 1..3 |-> [j \in 1..3 |-> M[j][i]]]
MatMul(A, B) ==
    [i \in 1..3 |-> [j \in 1..3 |->
        Milli(A[i][1] * B[1][j] + A[i][2] * B[2][j] + A[i][3] * B[3][j])]]
MatVec(M, v) ==
    [i \in 1..3 |-> Milli(M[i][1] * v[1] + M[i][2] * v[2] + M[i][3] * v[3])]

make_R_cam2world_from_yaw_pitch(yaw, pitch) ==
    LET Rpitch == << <<1000, 0, 0>>,
                     <<0, cos(pitch), -sin(pitch)>>,
                     <<0, sin(pitch), cos(pitch)>> >>
        Ryaw == << <<cos(yaw), -sin(yaw), 0>>,
                   <<sin(yaw), cos(yaw), 0>>,
                   <<0, 0, 1000>> >>
        R_cam2world == MatMul(Ryaw, Rpitch)
    IN  Transpose(R_cam2world)

cam2world(d, R_world2cam, imu_yaw, imu_pitch) ==
    [d EXCEPT !.tvec = MatVec(R_world2cam, d.tvec), !.yaw_rad = @ + imu_yaw]

tvec_distance(t) == sqrt(t[1] * t[1] + t[2] * t[2] + t[3] * t[3])

\* twice the average distance of group g, so that 0.5f * (d1 + d2) stays integral
avg_dist2(g) ==
    IF Len(g) = 1 THEN 2 * tvec_distance(g[1].tvec)
    ELSE tvec_distance(g[1].tvec) + tvec_distance(g[2].tvec)

RECURSIVE BestFrom(_, _, _, _)
BestFrom(groups, i, best_idx, best_dist2) ==
    IF i >= Len(groups) THEN best_idx
    ELSE IF avg_dist2(groups[i + 1]) < best_dist2
         THEN BestFrom(groups, i + 1, i, avg_dist2(groups[i + 1]))
         ELSE BestFrom(groups, i + 1, best_idx, best_dist2)

\* the index, from 0, of the group with the least average distance
choose_best_robot(groups) == BestFrom(groups, 0, 0, 2 * FLT_MAX)

\* the selector's state: ttl_, selected_robot_id_ and the emitted selected_armors
Selector(t, id, armors) == [ttl |-> t, selected_robot_id |-> id, selected_armors |-> armors]

\* select_armor, NO DETECTIONS, with the drained selector left as it is
no_detections_keep(st) == [st EXCEPT !.ttl = @ - dt]

\* select_armor, NO DETECTIONS
no_detections(st) ==
    IF st.ttl - dt <= 0
    THEN Selector(st.ttl - dt, -1, <<>>)
    ELSE [st EXCEPT !.ttl = @ - dt]

\* select_armor, NO TARGET CURRENTLY SELECTED and FULL LOST -> SWITCH TARGET
switch_target(groups) ==
    LET idx == choose_best_robot(groups)
    IN  Selector(MAX_TTL, idx, groups[idx + 1])

\* select_armor, the loop that looks for the tracked robot: the first index,
\* from 0, of a group whose first armor has class id, or -1
RECURSIVE TrackedFrom(_, _, _)
TrackedFrom(groups, id, i) ==
    IF i >= Len(groups) THEN -1
    ELSE IF groups[i + 1][1].class_id = id THEN i
    ELSE TrackedFrom(groups, id, i + 1)

select_armor(groups, st) ==
    IF groups = <<>> THEN no_detections(st)
    ELSE IF st.selected_robot_id < 0 THEN switch_target(groups)
    ELSE LET tracked_idx == TrackedFrom(groups, st.selected_robot_id, 0)
         IN  IF tracked_idx # -1
             THEN Selector(MAX_TTL, st.selected_robot_id, groups[tracked_idx + 1])
             ELSE IF st.ttl - dt > 0
                  THEN Selector(st.ttl - dt, st.selected_robot_id, <<>>)
                  ELSE switch_target(groups)

\* from_one_armor, the search over prev_yaw + pi/2, prev_yaw - pi/2, prev_yaw + pi
RECURSIVE BestYaw(_, _, _, _, _)
BestYaw(candidates, i, armor_yaw, best_yaw, best_err) ==
    IF i > Len(candidates) THEN best_yaw
    ELSE LET err == Abs(wrap_pi(candidates[i] - armor_yaw))
         IN  IF err < best_err
             THEN BestYaw(candidates, i + 1, armor_yaw, wrap_pi(candidates[i]), err)
             ELSE BestYaw(candidates, i + 1, armor_yaw, best_yaw, best_err)

\* from_one_armor: the robot it leaves in its reference parameter, and what it returns
from_one_armor(d, rstate, valid) ==
    LET seeded == IF ~valid
                  THEN [rstate EXCEPT !.state.R1 = DEFAULT_ROBOT_RADIUS,
                                     !.state.R2 = DEFAULT_ROBOT_RADIUS,
                                     !.state.YAW = d.yaw_rad]
                  ELSE rstate
        r1 == seeded.state.R1
        r2 == seeded.state.R2
        armor_yaw == d.yaw_rad
        prev_yaw == seeded.state.YAW
        chosen_yaw ==
            IF valid
            THEN BestYaw(<<prev_yaw + HALF_PI, prev_yaw - HALF_PI, prev_yaw + PI>>, 1,
                         armor_yaw, prev_yaw, Abs(wrap_pi(prev_yaw - armor_yaw)))
            ELSE seeded.state.YAW
        angle0 == fmod(chosen_yaw + PI, TWO_PI)
        angle == IF angle0 < 0 THEN angle0 + TWO_PI ELSE angle0
        shifted0 == fmod(angle + QUARTER_PI, TWO_PI)
        angle_shifted == IF shifted0 < 0 THEN shifted0 + TWO_PI ELSE shifted0
        sector == angle_shifted \div HALF_PI
        r == IF valid /\ sector % 2 = 1 THEN r2 ELSE r1
        s == sin(armor_yaw)
        c == cos(armor_yaw)
    IN  [robot |-> [seeded EXCEPT !.state.YAW = chosen_yaw,
                                  !.state.TX = d.tvec[1] - Milli(r * s),
                                  !.state.TY = d.tvec[2],
                                  !.state.TZ = d.tvec[3] + Milli(r * c),
                                  !.class_id = d.class_id],
         ret |-> TRUE]

\* from_two_armors has no body: the robot is left as it is and the value
\* returned is whatever the build leaves in the return register
from_two_armors(d1, d2, rstate, valid) ==
    {[robot |-> rstate, ret |-> b] : b \in BOOLEAN}

\* form_robot: the set of its outcomes, each the RobotState returned (NoRobot
\* for nullptr) and the has_prev_robot_ and prev_robot_ it leaves
form_robot(armors, pv) ==
    IF armors = <<>> \/ Len(armors) > 2
    THEN IF ~pv.has_prev_robot_
         THEN {[rs |-> NoRobot, has_prev_robot_ |-> pv.has_prev_robot_,
                prev_robot_ |-> pv.prev_robot_]}
         ELSE {[rs |-> pv.prev_robot_, has_prev_robot_ |-> pv.has_prev_robot_,
                prev_robot_ |-> pv.prev_robot_]}
    ELSE LET outs == IF Len(armors) = 1
                     THEN {from_one_armor(armors[1], pv.prev_robot_, pv.has_prev_robot_)}
                     ELSE from_two_armors(armors[1], armors[2], pv.prev_robot_,
                                          pv.has_prev_robot_)
         IN  {[rs |-> DefaultRobotState, has_prev_robot_ |-> o.ret,
               prev_robot_ |-> o.robot] : o \in outs}

\* get_imu_yaw_pitch: imu_yaw and imu_pitch are written only when it succeeds
NoImu == [euler_angle |-> <<>>, null |-> TRUE]
Imu(e) == [euler_angle |-> e, null |-> FALSE]
get_imu_yaw_pitch(imu, g) ==
    IF imu.null \/ Len(imu.euler_angle) < 3
    THEN g
    ELSE [imu_yaw |-> deg2rad(imu.euler_angle[3]), imu_pitch |-> deg2rad(imu.euler_angle[2])]

\* what the stubs of yolo_predict .. group_armors stand for: the groups of a frame
A3 == Armor(3, <<0, 0, 50>>, 0)
A7 == Armor(7, <<0, 0, 30>>, QUARTER_PI)
A1near == Armor(1, <<0, 0, 30>>, HALF_PI)
A1far == Armor(1, <<30, 0, 40>>, 0)
GroupInputs ==
    { <<>>,
      << <<A3>>, <<A7>> >>,
      << <<A7>> >>,
      << <<A1near, A1far>> >> }
\* IMU samples in degrees {roll, pitch, yaw}: none, one too short, one panned by 90
ImuInputs == {NoImu, Imu(<<0, 0>>), Imu(<<0, 0, 90>>)}

InitAlg ==
    /\ fstep = "group"
    /\ frame = [timestamp |-> 0]
    /\ grouped_armors = <<>>
    /\ sel = Selector(0, -1, <<>>)
    /\ gimbal = [imu_yaw |-> 0, imu_pitch |-> 0]
    /\ prev = [has_init |-> FALSE, has_prev_robot_ |-> FALSE,
               prev_robot_ |-> DefaultRobotState]
    /\ robot = NoRobot
    /\ run = [n |-> 0, selected_robot_id |-> -1, ttl |-> 0]

\* operator(), lines 38-64: a new camera frame and the groups found in it
FrameGroup ==
    /\ fstep = "group"
    /\ frame.timestamp < MaxFrames
    /\ \E g \in GroupInputs : grouped_armors' = g
    /\ frame' = [timestamp |-> frame.timestamp + 1]
    /\ robot' = NoRobot
    /\ fstep' = "select"
    /\ UNCHANGED <<sel, gimbal, prev, run>>
    /\ UNCHANGED <<regVars, extVars>>

\* operator(), line 65.  run records the selector as it was before the first
\* of the consecutive empty frames it has just been given, and their number.
FrameSelect ==
    /\ fstep = "select"
    /\ sel' = select_armor(grouped_armors, sel)
    /\ run' = IF grouped_armors # <<>>
              THEN [n |-> 0, selected_robot_id |-> -1, ttl |-> 0]
              ELSE IF run.n = 0
                   THEN [n |-> 1, selected_robot_id |-> sel.selected_robot_id, ttl |-> sel.ttl]
                   ELSE [run EXCEPT !.n = @ + 1]
    /\ fstep' = "world"
    /\ UNCHANGED <<frame, grouped_armors, gimbal, prev, robot>>
    /\ UNCHANGED <<regVars, extVars>>

\* operator(), lines 69-74
FrameWorld ==
    /\ fstep = "world"
    /\ \E imu \in ImuInputs :
         LET g == get_imu_yaw_pitch(imu, gimbal)
             R_world2cam == make_R_cam2world_from_yaw_pitch(g.imu_yaw, g.imu_pitch)
         IN  /\ gimbal' = g
             /\ sel' = [sel EXCEPT !.selected_armors =
                          [i \in 1..Len(@) |->
                              cam2world(@[i], R_world2cam, g.imu_yaw, g.imu_pitch)]]
    /\ fstep' = "form"
    /\ UNCHANGED <<frame, grouped_armors, prev, robot, run>>
    /\ UNCHANGED <<regVars, extVars>>

\* operator(), lines 77-83: robot is the state handed to the detection slot
FrameForm ==
    /\ fstep = "form"
    /\ \E b \in (IF prev.has_init THEN {prev.has_prev_robot_} ELSE BOOLEAN) :
       \E o \in form_robot(sel.selected_armors, [prev EXCEPT !.has_prev_robot_ = b]) :
         /\ prev' = [has_init |-> TRUE, has_prev_robot_ |-> o.has_prev_robot_,
                     prev_robot_ |-> o.prev_robot_]
         /\ robot' = IF o.rs = NoRobot THEN NoRobot
                     ELSE [o.rs EXCEPT !.timestamp = frame.timestamp]
    /\ fstep' = "group"
    /\ UNCHANGED <<frame, grouped_armors, sel, gimbal, run>>
    /\ UNCHANGED <<regVars, extVars>>


(***************************************************************************)
(* Part III.  Helper functions applied to arguments.                       *)
(***************************************************************************)
NoCall == [fn |-> "none", arg |-> <<>>, res |-> <<>>]
Call(f, a, r) == [fn |-> f, arg |-> a, res |-> r]

\* arguments of wrap_pi: every angle from -3 pi to 3 pi in steps of pi/64
MaxTurns == 3
Angles == (-MaxTurns * PI)..(MaxTurns * PI)

CallWrapPi ==
    /\ call = NoCall
    /\ \E angle \in Angles : call' = Call("wrap_pi", <<angle>>, <<wrap_pi(angle)>>)
    /\ UNCHANGED <<regVars, algVars, lead, prog, config, logmgr, timer, usb, pool>>

make_R_world2cam_from_yaw_pitch(yaw_cam_world, pitch_cam_world) ==
    LET R_cam2world == make_R_cam2world_from_yaw_pitch(yaw_cam_world, pitch_cam_world)
    IN  Transpose(R_cam2world)

\* both rotation builders applied to a yaw and a pitch that are multiples of
\* pi/2, where every matrix entry is -1, 0 or 1 (in thousandths)
RightAngles == {k * HALF_PI : k \in -2..2}
CallRotations ==
    /\ call = NoCall
    /\ \E yaw \in RightAngles, pitch \in RightAngles :
          call' = Call("make_R", <<yaw, pitch>>,
                       <<make_R_cam2world_from_yaw_pitch(yaw, pitch),
                         make_R_world2cam_from_yaw_pitch(yaw, pitch)>>)
    /\ UNCHANGED <<regVars, algVars, lead, prog, config, logmgr, timer, usb, pool>>

\* the gimbal limits; pitch is in hundredths of a radian, yaw in steps of pi/64
GIMBAL_PITCH_MIN == -17
GIMBAL_PITCH_MAX == 87
GIMBAL_YAW_MIN == -64
GIMBAL_YAW_MAX == 64
GIMBAL_SAFETY_MARGIN == 5
GIMBAL_HAS_YAW_LIMITS == FALSE
\* std::clamp
clamp(v, lo, hi) == IF v < lo THEN lo ELSE IF hi < v THEN hi ELSE v

\* clamp_to_gimbal_limits: the yaw and pitch it leaves in its reference
\* parameters (a margin of 0.05 rad is one step of pi/64)
clamp_to_gimbal_limits(yaw, pitch) ==
    LET pitch_min_safe == GIMBAL_PITCH_MIN + GIMBAL_SAFETY_MARGIN
        pitch_max_safe == GIMBAL_PITCH_MAX - GIMBAL_SAFETY_MARGIN
    IN  [pitch |-> clamp(pitch, pitch_min_safe, pitch_max_safe),
         yaw |-> IF ~GIMBAL_HAS_YAW_LIMITS
                 THEN wrap_pi(yaw)
                 ELSE clamp(yaw, GIMBAL_YAW_MIN + 1, GIMBAL_YAW_MAX - 1)]

\* pitch arguments, in hundredths of a radian
MaxPitch == 100
Pitches == (-MaxPitch)..MaxPitch

CallClamp ==
    /\ call = NoCall
    /\ \E yaw \in Angles, pitch \in Pitches :
         LET r == clamp_to_gimbal_limits(yaw, pitch)
         IN  call' = Call("clamp_to_gimbal_limits", <<yaw, pitch>>, <<r.yaw, r.pitch>>)
    /\ UNCHANGED <<regVars, algVars, lead, prog, config, logmgr, timer, usb, pool>>

\* arguments of from_one_armor: an armor at 3 m seen under any yaw in
\* [-pi, pi], and a prior with distinct radii and any yaw in Angles
ArmorYaws == (-PI)..PI
PriorRobot(yaw) ==
    [DefaultRobotState EXCEPT !.state.YAW = yaw, !.state.R1 = 2, !.state.R2 = 3,
                              !.class_id = 7]

\* from_one_armor on a prior, and once more on what the first call left
CallFromOneArmor ==
    /\ call = NoCall
    /\ \E yaw \in ArmorYaws, prior_yaw \in Angles, valid \in BOOLEAN :
         LET d == Armor(7, <<0, 0, 30>>, yaw)
             first == from_one_armor(d, PriorRobot(prior_yaw), valid)
             second == from_one_armor(d, first.robot, first.ret)
         IN  call' = Call("from_one_armor", <<d, PriorRobot(prior_yaw), valid>>,
                          <<first, second>>)
    /\ UNCHANGED <<regVars, algVars, lead, prog, config, logmgr, timer, usb, pool>>

\* ---- USBCommunication::sendData ----
\* A float is its IEEE-754 binary32 fields: sign (1 bit), exponent (8 bits)
\* and mantissa (23 bits).
Float(s, e, m) == [sign |-> s, exponent |-> e, mantissa |-> m]
RECURSIVE XorBits(_, _, _)
XorBits(a, b, n) ==
    IF n = 0 THEN 0
    ELSE ((a + b) % 2) + 2 * XorBits(a \div 2, b \div 2, n - 1)
\* uint8_t ^ uint8_t
Xor8(a, b) == XorBits(a, b, 8)

\* memcpy(&packet[k], &f, sizeof(float)) on a little-endian host
memcpy_float(f) ==
    <<f.mantissa % 256,
      (f.mantissa \div 256) % 256,
      (f.exponent % 2) * 128 + f.mantissa \div 65536,
      f.sign * 128 + f.exponent \div 2>>

RECURSIVE XorFold(_, _, _)
XorFold(packet, i, n) ==
    IF i > n THEN 0 ELSE Xor8(packet[i], XorFold(packet, i + 1, n))
\* a checksum that leaves the header out
checksum_no_header(packet) == XorFold(packet, 2, 10)
\* for (i = 0; i < 10; i++) checksum ^= packet[i]
checksum(packet) == XorFold(packet, 1, 10)

\* written is what write(fd_, packet, 11) returns
sendData(is_open_, fd_, yaw, pitch, is_fire, written) ==
    IF ~is_open_ \/ fd_ < 0
    THEN [ret |-> FALSE, packet |-> <<>>]
    ELSE LET head == <<170>> \o memcpy_float(yaw) \o memcpy_float(pitch)
                     \o <<IF is_fire THEN 1 ELSE 0>>
             packet == head \o <<checksum(head)>>
         IN  [ret |-> (written = 11), packet |-> packet]

\* zeros, subnormals, 1.0f, 3.14159274f, infinities and NaNs, of either sign
FloatWords ==
    {Float(s, e, m) : s \in {0, 1}, e \in {0, 85, 127, 128, 255},
                      m \in {0, 2796202, 4788187, 8388607}}
Written == {-1, 4, 11}
Devices == {[is_open_ |-> FALSE, fd_ |-> -1], [is_open_ |-> TRUE, fd_ |-> 3]}

CallSendData ==
    /\ call = NoCall
    /\ \E dev \in Devices, yaw \in FloatWords, pitch \in FloatWords,
          is_fire \in BOOLEAN, written \in Written :
          call' = Call("sendData", <<dev.is_open_, yaw, pitch, is_fire, written>>,
                       <<sendData(dev.is_open_, dev.fd_, yaw, pitch, is_fire, written)>>)
    /\ UNCHANGED <<regVars, algVars, lead, prog, config, logmgr, timer, usb, pool>>

\* ---- compute_prediction: the lead-time loop ----
\* Times are in milliseconds, speeds in decimetres per second, yaw rates in
\* steps of pi/64 per second.
ALPHA_BULLET_SPEED == 10
ALPHA_PROCESSING_TIME == 10
PREDICTION_CONVERGENCE_THRESHOLD == 10
PRED_CONV_MAX_ITERS == 10
t_gimbal_actuation == 100

\* alpha is in hundredths
filtering(value, measurement, alpha) ==
    (alpha * measurement + (100 - alpha) * value) \div 100

is_converged(v, threshold) == Abs(v) < threshold

t_lead_calculation(tvec, bullet_speed) ==
    (tvec_distance(tvec) * 1000) \div bullet_speed

sector_from_yaw(yaw) == ((wrap_pi(yaw) + QUARTER_PI) \div HALF_PI) % 4

\* state[0..14] of the filter's mean, indexed from 1
PfState(x, z, vx, vz, yaw, yaw_rate) ==
    <<x, 0, z, vx, 0, vz, 0, 0, 0, yaw, yaw_rate, 0, 2, 3, 0>>

motion_model_robot(state, t) ==
    LET tt == t * t
        half(a) == Milli(Milli(a * tt)) \div 2
        x == state[1] + Milli(state[4] * t) + half(state[7])
        y == state[2] + Milli(state[5] * t) + half(state[8])
        z == state[3] + Milli(state[6] * t) + half(state[9])
        yaw == state[10] + Milli(state[11] * t) + half(state[12])
        armor_plate_idx == sector_from_yaw(yaw)
        yaw_restrict == fmod(yaw + QUARTER_PI, 2 * HALF_PI) - QUARTER_PI
        radius == IF armor_plate_idx # 0 THEN state[14] ELSE state[13]
    IN  <<x + Milli(radius * sin(yaw_restrict)),
          y + state[15],
          z - Milli(radius * cos(yaw_restrict))>>

\* std::atan2(y, x) to the nearest step of pi/64: the direction of (x, y)
atan2(y, x) ==
    IF x = 0 /\ y = 0 THEN 0
    ELSE CHOOSE a \in (1 - PI)..PI :
           \A b \in (1 - PI)..PI :
              x * cos(a) + y * sin(a) >= x * cos(b) + y * sin(b)

\* world2cam(shared_) and pos_world2cam: the rotation by the gimbal's yaw and
\* pitch, applied to the lead position
world2cam(imu_yaw, imu_pitch) == make_R_cam2world_from_yaw_pitch(imu_yaw, imu_pitch)
pos_world2cam(pos, R_world2cam) == MatVec(R_world2cam, pos)

\* 0.5 * G * d^2 / v^2 with G = 98.1 dm/s^2, d in dm, v in dm/s
bullet_drop_correction(distance, bullet_speed) ==
    (981 * distance * distance) \div (20 * bullet_speed * bullet_speed)

calculate_gimbal_correction(tvec) == <<atan2(tvec[1], tvec[3]), atan2(tvec[2], tvec[3])>>

\* the tolerances are in centimetres, the chase threshold in decimetres
CHASE_THREASHOLD == 60
WIDTH_TOLERANCE == 13
HEIGHT_TOLERANCE == 13
TOLERANCE_COEFF == 1
should_fire(tvec) ==
    /\ 20 * Abs(tvec[1]) < WIDTH_TOLERANCE * TOLERANCE_COEFF
    /\ 20 * Abs(tvec[2]) < HEIGHT_TOLERANCE * TOLERANCE_COEFF

\* PredictionOut out{}
PredictionOut0 == [yaw_cmd |-> 0, pitch_cmd |-> 0, fire |-> FALSE, chase |-> FALSE, aim |-> FALSE]

\* the loop condition of the do-while without its cap
loop_again_uncapped(t_lead, iter) ==
    ~is_converged(t_lead, PREDICTION_CONVERGENCE_THRESHOLD)

\* while (!is_converged(t_lead, ...) && iter < MAX_ITERS)
loop_again(t_lead, iter) ==
    /\ ~is_converged(t_lead, PREDICTION_CONVERGENCE_THRESHOLD)
    /\ iter < PRED_CONV_MAX_ITERS

\* motion_model_robot applied to a mean with the given yaw and yaw rate
LeadTimes == {0, 150, 500}
CallMotionModel ==
    /\ call = NoCall
    /\ \E yaw \in Angles, yaw_rate \in {0, 128}, t \in LeadTimes :
          LET state == PfState(0, 30, 0, 0, yaw, yaw_rate)
          IN  call' = Call("motion_model_robot", <<state, t>>,
                           <<motion_model_robot(state, t)>>)
    /\ UNCHANGED <<regVars, algVars, lead, prog, config, logmgr, timer, usb, pool>>

MaxCalls == 2
InitLead ==
    [pc |-> "idle", calls |-> 0, bullet_speed |-> 200, processing_time |-> 50,
     rs |-> <<>>, t_lead |-> 0, pos_lead |-> <<>>, iter |-> 0,
     imu_yaw |-> 0, correction |-> <<>>,
     fire_state |-> FALSE, chase_state |-> FALSE, aim_state |-> FALSE,
     out |-> PredictionOut0]

\* the means the filter hands over: within 20 m, still, closing, crossing, spinning
LeadStates ==
    {PfState(0, 30, 0, 0, 0, 0), PfState(100, 170, -20, 0, 40, 0),
     PfState(-100, 100, 30, -10, -20, 128), PfState(0, 200, 0, -40, 90, -256),
     PfState(0, 0, 0, 0, 0, 0)}
MeasuredSpeeds == {50, 200, 400}
ProcTimes == {0, 50}
GimbalYaws == {0, QUARTER_PI}

\* lines 59-82: the filters and the first estimate of t_lead
LeadEnter ==
    /\ lead.pc = "idle"
    /\ lead.calls < MaxCalls
    /\ \E rs \in LeadStates, measured_speed \in MeasuredSpeeds, proc_time \in ProcTimes,
          imu_yaw \in GimbalYaws :
          LET bullet_speed == filtering(lead.bullet_speed, measured_speed, ALPHA_BULLET_SPEED)
              processing_time == filtering(lead.processing_time, proc_time, ALPHA_PROCESSING_TIME)
              tvec == <<rs[1], rs[2], rs[3]>>
          IN  lead' = [lead EXCEPT !.pc = "body", !.rs = rs, !.imu_yaw = imu_yaw,
                          !.bullet_speed = bullet_speed,
                          !.processing_time = processing_time,
                          !.t_lead = t_lead_calculation(tvec, bullet_speed)
                                     + processing_time + t_gimbal_actuation,
                          !.pos_lead = <<>>, !.iter = 0]
    /\ UNCHANGED <<regVars, algVars, call, prog, config, logmgr, timer, usb, pool>>

\* lines 85-92: one pass of the body, then the test
LeadIter ==
    /\ lead.pc = "body"
    /\ LET pos_lead == motion_model_robot(lead.rs, lead.t_lead)
           t_lead == t_lead_calculation(pos_lead, lead.bullet_speed)
                     + lead.processing_time + t_gimbal_actuation
           iter == lead.iter + 1
       IN  lead' = [lead EXCEPT !.pos_lead = pos_lead, !.t_lead = t_lead, !.iter = iter,
                       !.pc = IF loop_again(t_lead, iter) THEN "body" ELSE "done"]
    /\ UNCHANGED <<regVars, algVars, call, prog, config, logmgr, timer, usb, pool>>

\* lines 94-119: the lead position in the camera frame, the drop correction,
\* the gimbal correction and the three flags
LeadLeave ==
    /\ lead.pc = "done"
    /\ LET cam == pos_world2cam(lead.pos_lead, world2cam(lead.imu_yaw, 0))
           drop_correction == bullet_drop_correction(tvec_distance(cam), lead.bullet_speed)
           pos_lead == <<cam[1], cam[2] + drop_correction, cam[3]>>
       IN  lead' = [lead EXCEPT !.pc = "publish",
                       !.pos_lead = pos_lead,
                       !.correction = calculate_gimbal_correction(pos_lead),
                       !.fire_state = should_fire(pos_lead),
                       !.chase_state = (pos_lead[3] > CHASE_THREASHOLD),
                       !.aim_state = TRUE]
    /\ UNCHANGED <<regVars, algVars, call, prog, config, logmgr, timer, usb, pool>>

\* ---- the USB test program: main and USBCommunication::open ----
\* the float holding h / 2, for an integer h
RECURSIVE Log2(_)
Log2(h) == IF h < 2 THEN 0 ELSE 1 + Log2(h \div 2)
RECURSIVE Pow2(_)
Pow2(n) == IF n = 0 THEN 1 ELSE 2 * Pow2(n - 1)
FloatOfHalves(h) ==
    IF h = 0 THEN Float(0, 0, 0)
    ELSE LET a == Abs(h)
             p == Log2(a)
         IN  Float(IF h < 0 THEN 1 ELSE 0, 126 + p, (a - Pow2(p)) * Pow2(23 - p))

MaxSends == 12
\* USBCommunication(device_path): fd_(-1), is_open_(false); main before open()
InitProg ==
    [pc |-> "open", fd_ |-> -1, is_open_ |-> FALSE, open_ret |-> FALSE,
     log |-> {"INFO"}, exit_code |-> -1,
     yaw |-> 0, pitch |-> 0, is_fire |-> FALSE, counter |-> 0,
     writes |-> 0, sent |-> 0, packet |-> <<>>]

\* USBCommunication::configure(): tcgetattr or tcsetattr may fail
configure(fd_, tc_ok) ==
    IF fd_ < 0 THEN [ret |-> FALSE, log |-> {"ERROR"}]
    ELSE IF ~tc_ok THEN [ret |-> FALSE, log |-> {"INFO", "ERROR"}]
    ELSE [ret |-> TRUE, log |-> {"INFO"}]

\* USBCommunication::open(): sys_fd is what ::open returns
open(is_open_, fd_, sys_fd, tc_ok) ==
    IF is_open_
    THEN [ret |-> TRUE, fd_ |-> fd_, is_open_ |-> TRUE, log |-> {"WARN"}]
    ELSE IF sys_fd < 0
    THEN [ret |-> FALSE, fd_ |-> sys_fd, is_open_ |-> FALSE, log |-> {"INFO", "ERROR"}]
    ELSE LET c == configure(sys_fd, tc_ok)
         IN  [ret |-> c.ret, fd_ |-> sys_fd, is_open_ |-> TRUE,
              log |-> {"INFO"} \cup c.log]

\* test.cc line 46: usb.open()
MainOpen ==
    /\ prog.pc = "open"
    /\ \E sys_fd \in {-1, 3}, tc_ok \in BOOLEAN :
          LET r == open(prog.is_open_, prog.fd_, sys_fd, tc_ok)
          IN  prog' = [prog EXCEPT !.pc = "check", !.open_ret = r.ret,
                          !.fd_ = r.fd_, !.is_open_ = r.is_open_,
                          !.log = @ \cup r.log]
    /\ UNCHANGED <<regVars, algVars, call, lead, config, logmgr, timer, usb, pool>>

\* a main that goes on whatever open() returned
MainCheckIgnored ==
    /\ prog.pc = "check"
    /\ prog' = [prog EXCEPT !.pc = "loop", !.log = @ \cup {"INFO"}]
    /\ UNCHANGED <<regVars, algVars, call, lead, config, logmgr, timer, usb, pool>>

\* lines 46-51: if (!usb.open()) { FATAL; return 1; }
MainCheck ==
    /\ prog.pc = "check"
    /\ prog' = IF ~prog.open_ret
               THEN [prog EXCEPT !.pc = "exit", !.exit_code = 1,
                                 !.log = @ \cup {"FATAL"}]
               ELSE [prog EXCEPT !.pc = "loop", !.log = @ \cup {"INFO"}]
    /\ UNCHANGED <<regVars, algVars, call, lead, config, logmgr, timer, usb, pool>>

\* lines 58-80: one pass of while (true); yaw is in units, pitch in halves
MainSend ==
    /\ prog.pc = "loop"
    /\ prog.counter < MaxSends
    /\ \E written \in Written :
          LET yaw0 == prog.yaw + 1
              pitch0 == prog.pitch + 1
              yaw == IF yaw0 > 360 THEN 0 ELSE yaw0
              pitch == IF pitch0 > 180 THEN -180 ELSE pitch0
              counter == prog.counter + 1
              is_fire == IF counter % 5 = 0 THEN ~prog.is_fire ELSE prog.is_fire
              r == sendData(prog.is_open_, prog.fd_, FloatOfHalves(2 * yaw),
                            FloatOfHalves(pitch), is_fire, written)
              wrote == r.packet # <<>>
          IN  /\ (~wrote => written = -1)
              /\ prog' = [prog EXCEPT !.yaw = yaw, !.pitch = pitch,
                             !.counter = counter, !.is_fire = is_fire,
                             !.writes = IF wrote THEN @ + 1 ELSE @,
                             !.sent = IF r.ret THEN @ + 1 ELSE @,
                             !.packet = IF wrote THEN r.packet ELSE @,
                             !.log = @ \cup (IF r.ret THEN {"INFO", "DEBUG"} ELSE {"ERROR"})]
    /\ UNCHANGED <<regVars, algVars, call, lead, config, logmgr, timer, usb, pool>>

\* operator() lines 35-40: out, declared PredictionOut out{} and handed to
\* compute_prediction, is copied into the snapshot that is published; the
\* arguments and the buffers of the call are not read again
LeadPublish ==
    /\ lead.pc = "publish"
    /\ lead' = [lead EXCEPT !.pc = "idle", !.calls = lead.calls + 1,
                   !.out = PredictionOut0,
                   !.rs = <<>>, !.imu_yaw = 0, !.t_lead = 0, !.iter = 0,
                   !.pos_lead = <<>>, !.correction = <<>>]
    /\ UNCHANGED <<regVars, algVars, call, prog, config, logmgr, timer, usb, pool>>

\* ---------------------------------------------------------------------
\* sylar::Config. Names and scalars are strings, modelled as sequences of
\* characters. Two variables of type int are registered, "p" and "q"; a
\* listener is modelled by the call it receives, appended to notified.

\* the characters ListAllMemeber accepts in a name
NameChars ==
    {"a", "b", "c", "d", "e", "f", "g", "h", "i", "k", "j", "l", "m", "n", "o",
     "p", "q", "r", "s", "t", "u", "v", "w", "x", "y", "z", ".", "_",
     "0", "1", "2", "3", "4", "5", "6", "7", "8", "9"}

tolower(c) == IF c = "P" THEN "p" ELSE IF c = "Q" THEN "q" ELSE c

DigitChars == <<"0", "1", "2", "3", "4", "5", "6", "7", "8", "9">>
IsDigit(c) == \E i \in 1..10 : DigitChars[i] = c
DigitValue(c) == (CHOOSE i \in 1..10 : DigitChars[i] = c) - 1

\* boost::lexical_cast<int>: the decimal value of a string of digits; any
\* other string throws bad_lexical_cast
RECURSIVE DecimalValue(_)
DecimalValue(s) ==
    IF s = <<>> THEN 0
    ELSE 10 * DecimalValue(SubSeq(s, 1, Len(s) - 1)) + DigitValue(s[Len(s)])
Converts(val) == val # <<>> /\ \A i \in 1..Len(val) : IsDigit(val[i])
FromStr(val) == DecimalValue(val)

\* the keys of m_cbs in the order std::map iterates them
RECURSIVE KeysInOrder(_)
KeysInOrder(S) ==
    IF S = {} THEN <<>>
    ELSE LET k == CHOOSE x \in S : \A y \in S : x <= y
         IN  <<k>> \o KeysInOrder(S \ {k})

\* ConfigVar::setValue on variable name of the registry state c: an equal
\* value returns at once; otherwise every listener is called with (m_val, v).
\* m_val is assigned nowhere in the function.
setValue(c, name, v) ==
    LET var == c.datas[name]
        keys == KeysInOrder(var.m_cbs)
    IN  IF v = var.m_val THEN [c EXCEPT !.given = c.given \o <<<<name, v>>>>]
        ELSE [c EXCEPT !.given = c.given \o <<<<name, v>>>>,
                       !.notified = c.notified \o
                           [i \in 1..Len(keys) |-> <<name, keys[i], var.m_val, v>>]]

\* ConfigVar::fromString: a conversion that throws is caught and logged
fromString(c, name, val) ==
    IF Converts(val) THEN setValue(c, name, FromStr(val)) ELSE c

getValue(c, name) == c.datas[name].m_val

\* ListAllMemeber on a root map of scalars: the root itself under the empty
\* name, then each member whose name has accepted characters only
ValidName(prefix) == \A i \in 1..Len(prefix) : prefix[i] \in NameChars
ListAllMemeber(root) ==
    <<<<<<>>, <<>>>>>> \o SelectSeq(root, LAMBDA m : ValidName(m[1]))

\* Config::LoadFromYaml: every listed node whose lowercased name is
\* registered is given to fromString
RECURSIVE LoadNodes(_, _)
LoadNodes(c, all_nodes) ==
    IF all_nodes = <<>> THEN c
    ELSE LET i == Head(all_nodes)
             key == [j \in 1..Len(i[1]) |-> tolower(i[1][j])]
             d == IF i[1] # <<>> /\ key \in DOMAIN c.datas
                  THEN fromString(c, key, i[2]) ELSE c
         IN  LoadNodes(d, Tail(all_nodes))
LoadFromYaml(c, root) == LoadNodes(c, ListAllMemeber(root))

ListenerKeys == {1, 2}
Scalars == {<<"1">>, <<"2">>, <<"x">>}
YamlNames == {<<"p">>, <<"q">>, <<"P">>, <<"z">>}
YamlMembers == YamlNames \X Scalars
YamlRoots == {<<>>} \cup {<<m>> : m \in YamlMembers}
                 \cup {<<m, n>> : m \in YamlMembers, n \in YamlMembers}

\* the key LogIniter registers its listener under, 0xF1E231
LogIniterKey == 15786545

\* Config::Lookup has registered "p" and "q" with the default value 1, and
\* the variable "logs" (g_log_defines) with the empty set of logger
\* definitions, written as the sequence of the definitions in name order;
\* given lists the setValue calls and notified the listener calls of the
\* operation performed last
InitConfig ==
    [datas |-> [n \in {<<"p">>, <<"q">>} |-> [m_val |-> 1, m_cbs |-> {}]],
     logs |-> [m_val |-> <<>>, m_cbs |-> {LogIniterKey}],
     op |-> "none", given |-> <<>>, notified |-> <<>>]

Begin(op) == [config EXCEPT !.op = op, !.given = <<>>, !.notified = <<>>]

ConfigAddListener ==
    /\ \E name \in DOMAIN config.datas, key \in ListenerKeys :
          config' = [Begin("addListener") EXCEPT
                        !.datas[name].m_cbs = @ \cup {key}]
    /\ UNCHANGED <<regVars, algVars, call, lead, prog, logmgr, timer, usb, pool>>

ConfigDelListener ==
    /\ \E name \in DOMAIN config.datas, key \in ListenerKeys :
          config' = [Begin("delListener") EXCEPT
                        !.datas[name].m_cbs = @ \ {key}]
    /\ UNCHANGED <<regVars, algVars, call, lead, prog, logmgr, timer, usb, pool>>

ConfigFromString ==
    /\ \E name \in DOMAIN config.datas, val \in Scalars :
          config' = fromString(Begin("fromString"), name, val)
    /\ UNCHANGED <<regVars, algVars, call, lead, prog, logmgr, timer, usb, pool>>

ConfigLoadFromYaml ==
    /\ \E root \in YamlRoots :
          config' = LoadFromYaml(Begin("LoadFromYaml"), root)
    /\ UNCHANGED <<regVars, algVars, call, lead, prog, logmgr, timer, usb, pool>>

\* ---------------------------------------------------------------------
\* sylar::LogFormatter. A pattern is a sequence of characters.

Letters ==
    {"a", "b", "c", "d", "e", "f", "g", "h", "i", "j", "k", "l", "m", "n", "o",
     "p", "q", "r", "s", "t", "u", "v", "w", "x", "y", "z",
     "A", "B", "C", "D", "E", "F", "G", "H", "I", "J", "K", "L", "M", "N", "O",
     "P", "Q", "R", "S", "T", "U", "V", "W", "X", "Y", "Z"}
isalpha(c) == c \in Letters

\* the specifiers registered in s_format_items
s_format_items ==
    {<<"m">>, <<"p">>, <<"r">>, <<"c">>, <<"t">>, <<"n">>, <<"d">>, <<"f">>,
     <<"l">>, <<"T">>, <<"F">>}

\* a token of the parser: (str, format, type), type 0 literal, 1 specifier
Token(str, fmt, type) == <<str, fmt, type>>

\* the state machine of LogFormatter::init from character i of the pattern
\* on; ps holds state, spec_start, fmt_start, spec_name, literal_buf, tokens.
\* Positions count from 1.
RECURSIVE Scan(_, _, _)
Scan(pat, i, ps) ==
    IF i > Len(pat) THEN ps
    ELSE LET c == pat[i] IN
      CASE ps.state = "LITERAL" ->
             IF c = "%"
             THEN IF i + 1 <= Len(pat) /\ pat[i + 1] = "%"
                  THEN Scan(pat, i + 2, [ps EXCEPT !.literal_buf = @ \o <<"%">>])
                  ELSE Scan(pat, i + 1,
                            [ps EXCEPT !.state = "SPECIFIER", !.spec_start = i + 1,
                                !.tokens = IF ps.literal_buf # <<>>
                                           THEN @ \o <<Token(ps.literal_buf, <<>>, 0)>>
                                           ELSE @,
                                !.literal_buf = <<>>])
             ELSE Scan(pat, i + 1, [ps EXCEPT !.literal_buf = @ \o <<c>>])
        [] ps.state = "SPECIFIER" ->
             IF ~isalpha(c) /\ c # "{" /\ c # "}"
             THEN LET name == SubSeq(pat, ps.spec_start, i - 1)
                      t == [ps EXCEPT !.spec_name = name,
                                      !.tokens = @ \o <<Token(name, <<>>, 1)>>]
                  IN  IF c = "%"
                      THEN Scan(pat, i + 1, [t EXCEPT !.spec_start = i + 1])
                      ELSE Scan(pat, i + 1, [t EXCEPT !.literal_buf = @ \o <<c>>,
                                                      !.state = "LITERAL"])
             ELSE IF c = "{"
             THEN Scan(pat, i + 1,
                       [ps EXCEPT !.spec_name = SubSeq(pat, ps.spec_start, i - 1),
                                  !.state = "FORMAT_START", !.fmt_start = i + 1])
             ELSE Scan(pat, i + 1, ps)
        [] ps.state = "FORMAT_START" ->
             IF c = "}"
             THEN Scan(pat, i + 1,
                       [ps EXCEPT !.tokens = @ \o <<Token(ps.spec_name,
                                      SubSeq(pat, ps.fmt_start, i - 1), 1)>>,
                                  !.state = "LITERAL"])
             ELSE Scan(pat, i + 1, ps)

\* the tokens after the final state cleanup
Tokens(pat) ==
    LET ps == Scan(pat, 1, [state |-> "LITERAL", spec_start |-> 1, fmt_start |-> 1,
                            spec_name |-> <<>>, literal_buf |-> <<>>, tokens |-> <<>>])
    IN  CASE ps.state = "SPECIFIER" ->
               ps.tokens \o <<Token(SubSeq(pat, ps.spec_start, Len(pat)), <<>>, 1)>>
          [] ps.state = "FORMAT_START" ->
               ps.tokens \o <<Token(<<"<<pattern_error>>">>, <<>>, 0)>>
          [] ps.state = "LITERAL" ->
               IF ps.literal_buf # <<>>
               THEN ps.tokens \o <<Token(ps.literal_buf, <<>>, 0)>>
               ELSE ps.tokens

StringFormatItem(str) == [item |-> "string", name |-> <<>>, str |-> str]
FormatItem(name, fmt) == [item |-> "specifier", name |-> name, str |-> fmt]

\* LogFormatter::init: the items built from the tokens, and the error flag
init(m_pattern) ==
    LET ps == Scan(m_pattern, 1,
                   [state |-> "LITERAL", spec_start |-> 1, fmt_start |-> 1,
                    spec_name |-> <<>>, literal_buf |-> <<>>, tokens |-> <<>>])
        tokens == Tokens(m_pattern)
    IN  [m_items |->
            [k \in 1..Len(tokens) |->
                IF tokens[k][3] = 0 THEN StringFormatItem(tokens[k][1])
                ELSE IF tokens[k][1] \in s_format_items
                THEN FormatItem(tokens[k][1], tokens[k][2])
                ELSE StringFormatItem(<<"<<error_format %">> \o tokens[k][1] \o <<">>">>)],
         m_error |-> \/ ps.state = "FORMAT_START"
                     \/ \E k \in 1..Len(tokens) :
                           tokens[k][3] = 1 /\ tokens[k][1] \notin s_format_items]

\* what the items print: the characters of the string items in order, each
\* other item standing for itself
RECURSIVE Printed(_)
Printed(m_items) ==
    IF m_items = <<>> THEN <<>>
    ELSE LET it == Head(m_items)
         IN  (IF it.item = "string" THEN it.str ELSE <<it>>) \o Printed(Tail(m_items))

\* patterns: up to MaxPieces pieces in a row
MaxPieces == 3
Pieces ==
    {<<"%", "m">>, <<"%", "d", "{", "}">>, <<"%", "%">>, <<"-">>, <<"m">>,
     <<"%">>, <<"{">>, <<"}">>}
RECURSIVE PatternsOf(_)
PatternsOf(n) ==
    IF n = 0 THEN {<<>>}
    ELSE LET P == PatternsOf(n - 1)
         IN  P \cup {p \o q : p \in P, q \in Pieces}
Patterns == PatternsOf(MaxPieces)

CallFormatterInit ==
    /\ call = NoCall
    /\ \E m_pattern \in Patterns :
          call' = Call("LogFormatter::init", <<m_pattern>>, <<init(m_pattern)>>)
    /\ UNCHANGED <<regVars, algVars, lead, prog, config, logmgr, timer, usb, pool>>

\* ---------------------------------------------------------------------
\* sylar::Logger, sylar::LogAppender and sylar::LoggerManager. A
\* LogFormatter::ptr is the number of its formatter in FormatterPool, one
\* formatter per pattern; NullFormatter is the empty shared_ptr. Appenders
\* live in numbered cells; a cell no logger lists and the program does not
\* hold is destroyed.

UNKNOWN == 0
DEBUG == 1
INFO == 2
WARN == 3
ERROR == 4
FATAL == 5

NullFormatter == 0
\* the pattern the Logger constructor installs
DefaultPattern ==
    <<"%", "d", "{", "%", "Y", "-", "%", "m", "-", "%", "d", " ",
      "%", "H", ":", "%", "M", ":", "%", "S", "}",
      "%", "T", "%", "t", "%", "T", "%", "F", "%", "T", "[", "%", "p", "]",
      "%", "T", "[", "%", "c", "]", "%", "T", "%", "f", ":", "%", "l",
      "%", "T", "%", "m", "%", "n">>

\* the formatters the program constructs, by pattern
FormatterPool == <<DefaultPattern, <<>>, <<"%", "m">>, <<"%", "p">>>>
LogFormatter(pattern) ==
    CHOOSE f \in 1..Len(FormatterPool) : FormatterPool[f] = pattern
getPattern(f) == FormatterPool[f]

NewLogger(root) ==
    [m_level |-> DEBUG, m_formatter |-> LogFormatter(DefaultPattern), m_appenders |-> <<>>,
     m_root |-> root]
\* a LogAppender as constructed; type 1 is a FileLogAppender, 2 a
\* StdoutLogAppender, 0 marks a cell that holds no appender
NewAppender(type) ==
    [type |-> type, m_level |-> DEBUG, m_hasFormatter |-> FALSE,
     m_formatter |-> NullFormatter]

MaxAppenders == 3
MaxAttached == 2
AppenderIds == 1..MaxAppenders

Attached(m, a) ==
    \E n \in DOMAIN m.loggers :
       \E i \in 1..Len(m.loggers[n].m_appenders) : m.loggers[n].m_appenders[i] = a
Free(m, a) == ~Attached(m, a) /\ a \notin m.held
\* the appenders nothing refers to any more are destroyed
Collect(m) ==
    [m EXCEPT !.appenders =
        [a \in AppenderIds |-> IF Free(m, a) THEN NewAppender(0) ELSE m.appenders[a]]]

\* Logger::addAppender: an appender without a formatter is lent the
\* logger's; m_hasFormatter stays as it is
addAppender(m, name, a) ==
    LET lent == IF m.appenders[a].m_formatter = NullFormatter
                THEN [m EXCEPT !.appenders[a].m_formatter = m.loggers[name].m_formatter]
                ELSE m
    IN  [lent EXCEPT !.loggers[name].m_appenders = Append(@, a)]

clearAppenders(m, name) == [m EXCEPT !.loggers[name].m_appenders = <<>>]

\* Logger::setFormatter(LogFormatter::ptr): the appenders of the logger
\* that have no formatter of their own follow
Logger_setFormatter(m, name, val) ==
    LET apps == m.loggers[name].m_appenders
    IN  [m EXCEPT !.loggers[name].m_formatter = val,
                  !.appenders = [a \in AppenderIds |->
                      IF (\E i \in 1..Len(apps) : apps[i] = a)
                         /\ ~m.appenders[a].m_hasFormatter
                      THEN [m.appenders[a] EXCEPT !.m_formatter = val]
                      ELSE m.appenders[a]]]

\* Logger::setFormatter(const std::string&): a pattern with an error is
\* reported and dropped
Logger_setFormatterStr(m, name, val) ==
    IF init(val).m_error THEN m ELSE Logger_setFormatter(m, name, LogFormatter(val))

\* LogAppender::setFormatter(const std::string&): the empty string clears
\* m_hasFormatter and leaves m_formatter as it is
LogAppender_setFormatterStr(m, a, val) ==
    IF val # <<>>
    THEN IF init(val).m_error THEN m
         ELSE [m EXCEPT !.appenders[a].m_formatter = LogFormatter(val),
                        !.appenders[a].m_hasFormatter = TRUE]
    ELSE [m EXCEPT !.appenders[a].m_hasFormatter = FALSE]

\* LogAppender::setFormatter(LogFormatter::ptr)
LogAppender_setFormatter(m, a, val) ==
    [m EXCEPT !.appenders[a].m_formatter = val,
              !.appenders[a].m_hasFormatter = (val # NullFormatter)]

\* an appender that writes every record it is handed
LogAppender_log_unfiltered(m, a, self, level) ==
    <<[appender |-> a, logger |-> self, level |-> level,
       formatter |-> m.appenders[a].m_formatter]>>

\* StdoutLogAppender::log and FileLogAppender::log: the record is formatted
\* with m_formatter and written when the appender's level admits it
LogAppender_log(m, a, self, level) ==
    IF level >= m.appenders[a].m_level
    THEN <<[appender |-> a, logger |-> self, level |-> level,
            formatter |-> m.appenders[a].m_formatter]>>
    ELSE <<>>

RECURSIVE AppendersLog(_, _, _, _)
AppendersLog(m, apps, self, level) ==
    IF apps = <<>> THEN <<>>
    ELSE LogAppender_log(m, Head(apps), self, level)
             \o AppendersLog(m, Tail(apps), self, level)

\* Logger::log: the records written, in order
RECURSIVE Logger_log(_, _, _)
Logger_log(m, name, level) ==
    LET lg == m.loggers[name]
    IN  IF level >= lg.m_level
        THEN IF lg.m_appenders # <<>>
             THEN AppendersLog(m, lg.m_appenders, name, level)
             ELSE IF lg.m_root THEN Logger_log(m, "root", level) ELSE <<>>
        ELSE <<>>

\* LoggerManager::getLogger: a new logger falls back on the root logger
getLogger(m, name) ==
    IF name \in DOMAIN m.loggers THEN m
    ELSE [m EXCEPT !.loggers = (name :> NewLogger(TRUE)) @@ m.loggers]

NoEvent == [logger |-> "", level |-> UNKNOWN]

\* LoggerManager(): the root logger with one StdoutLogAppender. event is
\* the record logged last, written what the appenders wrote for it, fault
\* whether an empty pointer has been dereferenced.
InitLogMgr ==
    LET m0 == [loggers |-> ("root" :> NewLogger(FALSE)),
               appenders |-> [a \in AppenderIds |->
                                 IF a = 1 THEN NewAppender(2) ELSE NewAppender(0)],
               held |-> {}, event |-> NoEvent, written |-> <<>>, fault |-> FALSE]
    IN  addAppender(m0, "root", 1)

Quiet(m) == [m EXCEPT !.event = NoEvent, !.written = <<>>]

\* ---------------------------------------------------------------------
\* The listener LogIniter registers on g_log_defines. A LogDefine is
\* [name, level, formatter, appenders], a LogAppenderDefine is
\* [type, level, formatter, file]; the empty string is <<>>.

\* std::set<LogDefine>::find: definitions are ordered by name alone
find(value, name) ==
    IF \E k \in 1..Len(value) : value[k].name = name
    THEN CHOOSE k \in 1..Len(value) : value[k].name = name
    ELSE 0

LowestFree(m) ==
    CHOOSE a \in AppenderIds : Free(m, a) /\ \A b \in AppenderIds : Free(m, b) => a <= b

\* the body of the loop over i.appenders. A type that is neither 1 nor 2
\* leaves ap empty, and ap->setLevel is undefined: under ub = "segv" the
\* program stops there, under "skip" the statements on ap have no effect.
RECURSIVE ApplyAppenders(_, _, _, _)
ApplyAppenders(m, name, appenders, ub) ==
    IF appenders = <<>> \/ m.fault THEN m
    ELSE LET a == Head(appenders)
             ap == LowestFree(m)
             made == [m EXCEPT !.appenders[ap] =
                         [NewAppender(a.type) EXCEPT !.m_level = a.level]]
             set == IF a.formatter # <<>>
                    THEN LogAppender_setFormatterStr(made, ap, a.formatter)
                    ELSE made
             d == IF a.type \in {1, 2} THEN addAppender(set, name, ap)
                  ELSE IF ub = "segv" THEN [m EXCEPT !.fault = TRUE] ELSE m
         IN  ApplyAppenders(d, name, Tail(appenders), ub)

\* the first loop of the listener, over new_value. A definition found
\* unchanged in old_value leaves logger empty, and logger->setLevel is
\* undefined.
RECURSIVE ApplyDefines(_, _, _, _)
ApplyDefines(m, old_value, defines, ub) ==
    IF defines = <<>> \/ m.fault THEN m
    ELSE LET i == Head(defines)
             it == find(old_value, i.name)
             got == getLogger(m, i.name)
             lvl == [got EXCEPT !.loggers[i.name].m_level = i.level]
             fmt == IF i.formatter # <<>>
                    THEN Logger_setFormatterStr(lvl, i.name, i.formatter)
                    ELSE lvl
             cleared == Collect(clearAppenders(fmt, i.name))
             d == IF it = 0 \/ i # old_value[it]
                  THEN ApplyAppenders(cleared, i.name, i.appenders, ub)
                  ELSE IF ub = "segv" THEN [m EXCEPT !.fault = TRUE] ELSE m
         IN  ApplyDefines(d, old_value, Tail(defines), ub)

\* the level the listener gives a removed logger
RemovedLevel == 100

\* the second loop, over old_value: a logger whose definition is gone gets
\* a level no record reaches and loses its appenders
RECURSIVE RemoveDefines(_, _, _)
RemoveDefines(m, defines, new_value) ==
    IF defines = <<>> \/ m.fault THEN m
    ELSE LET i == Head(defines)
             got == getLogger(m, i.name)
             d == IF find(new_value, i.name) = 0
                  THEN Collect(clearAppenders(
                          [got EXCEPT !.loggers[i.name].m_level = RemovedLevel], i.name))
                  ELSE m
         IN  RemoveDefines(d, Tail(defines), new_value)

LogIniter(m, old_value, new_value, ub) ==
    RemoveDefines(ApplyDefines(m, old_value, new_value, ub), old_value, new_value)

\* logger definitions: a level, and either no formatter and no appender,
\* or no formatter and a StdoutLogAppender, or a formatter and a
\* FileLogAppender with a level and a formatter of its own, or an appender
\* of a type the conversion does not know
DefineBodies ==
    {[formatter |-> <<>>, appenders |-> <<>>],
     [formatter |-> <<>>, appenders |->
         <<[type |-> 2, level |-> UNKNOWN, formatter |-> <<>>, file |-> ""]>>],
     [formatter |-> <<"%", "m">>, appenders |->
         <<[type |-> 1, level |-> ERROR, formatter |-> <<"%", "p">>, file |-> "log.txt"]>>],
     [formatter |-> <<>>, appenders |->
         <<[type |-> 0, level |-> UNKNOWN, formatter |-> <<>>, file |-> ""]>>]}
LogDefines(name, levels) ==
    {[name |-> name, level |-> l, formatter |-> b.formatter, appenders |-> b.appenders] :
        l \in levels, b \in DefineBodies}
LogDefinesA == LogDefines("a", {INFO, ERROR})
LogDefinesB == {d \in LogDefines("b", {INFO}) : d.formatter = <<>> /\ d.appenders = <<>>}
LogDefineSets ==
    {<<>>} \cup {<<d>> : d \in LogDefinesA} \cup {<<d>> : d \in LogDefinesB}
        \cup {<<d, e>> : d \in LogDefinesA, e \in LogDefinesB}

\* g_log_defines->fromString(...) reaching ConfigVar::setValue with the set
\* v: an equal set returns at once, otherwise the listener is called with
\* (m_val, v); m_val is not assigned
LogsFromString ==
    /\ ~logmgr.fault
    /\ \E v \in LogDefineSets, ub \in {"segv", "skip"} :
          /\ config' = [Begin("fromString") EXCEPT
                           !.given = <<<<<<"l", "o", "g", "s">>, v>>>>]
          /\ logmgr' = IF v = config.logs.m_val THEN Quiet(logmgr)
                       ELSE LogIniter(Quiet(logmgr), config.logs.m_val, v, ub)
    /\ UNCHANGED <<regVars, algVars, call, lead, prog, timer, usb, pool>>

LoggerNames == {"a"}
LogLevels == {DEBUG, INFO, ERROR}
LoggerPatterns == {<<"%", "m">>, <<"%", "m", "%", "%">>}
AppenderPatterns == {<<"%", "p">>, <<>>, <<"%", "m", "%", "%">>}
FormatterPtrs == {NullFormatter, LogFormatter(<<"%", "p">>)}

LogNewAppender ==
    /\ ~logmgr.fault
    /\ \E a \in AppenderIds :
          /\ Free(logmgr, a)
          /\ \A b \in AppenderIds : Free(logmgr, b) => a <= b
          /\ logmgr' = [Quiet(logmgr) EXCEPT !.held = @ \cup {a},
                                             !.appenders[a] = NewAppender(2)]
    /\ UNCHANGED <<regVars, algVars, call, lead, prog, config, timer, usb, pool>>

LogGetLogger ==
    /\ ~logmgr.fault
    /\ \E name \in LoggerNames : logmgr' = getLogger(Quiet(logmgr), name)
    /\ UNCHANGED <<regVars, algVars, call, lead, prog, config, timer, usb, pool>>

LogAddAppender ==
    /\ ~logmgr.fault
    /\ \E name \in DOMAIN logmgr.loggers, a \in logmgr.held :
          /\ Len(logmgr.loggers[name].m_appenders) < MaxAttached
          /\ logmgr' = addAppender(Quiet(logmgr), name, a)
    /\ UNCHANGED <<regVars, algVars, call, lead, prog, config, timer, usb, pool>>

LogLoggerSetFormatter ==
    /\ ~logmgr.fault
    /\ \E name \in DOMAIN logmgr.loggers, val \in LoggerPatterns :
          logmgr' = Logger_setFormatterStr(Quiet(logmgr), name, val)
    /\ UNCHANGED <<regVars, algVars, call, lead, prog, config, timer, usb, pool>>

LogAppenderSetFormatterStr ==
    /\ ~logmgr.fault
    /\ \E a \in logmgr.held, val \in AppenderPatterns :
          logmgr' = LogAppender_setFormatterStr(Quiet(logmgr), a, val)
    /\ UNCHANGED <<regVars, algVars, call, lead, prog, config, timer, usb, pool>>

LogAppenderSetFormatterPtr ==
    /\ ~logmgr.fault
    /\ \E a \in logmgr.held, val \in FormatterPtrs :
          logmgr' = LogAppender_setFormatter(Quiet(logmgr), a, val)
    /\ UNCHANGED <<regVars, algVars, call, lead, prog, config, timer, usb, pool>>

LogLoggerSetLevel ==
    /\ ~logmgr.fault
    /\ \E name \in DOMAIN logmgr.loggers, val \in LogLevels :
          logmgr' = [Quiet(logmgr) EXCEPT !.loggers[name].m_level = val]
    /\ UNCHANGED <<regVars, algVars, call, lead, prog, config, timer, usb, pool>>

LogAppenderSetLevel ==
    /\ ~logmgr.fault
    /\ \E a \in logmgr.held, val \in LogLevels :
          logmgr' = [Quiet(logmgr) EXCEPT !.appenders[a].m_level = val]
    /\ UNCHANGED <<regVars, algVars, call, lead, prog, config, timer, usb, pool>>

\* SYLAR_LOG_LEVEL(logger, level) << ...: the event is built and logged
\* when the logger's level admits it. Formatting with an empty m_formatter
\* is undefined: the program may stop there or go on.
LogRecord ==
    /\ ~logmgr.fault
    /\ \E name \in DOMAIN logmgr.loggers, level \in LogLevels :
          LET w == IF logmgr.loggers[name].m_level <= level
                   THEN Logger_log(logmgr, name, level) ELSE <<>>
              undefined == \E i \in 1..Len(w) : w[i].formatter = NullFormatter
          IN  \E fault \in IF undefined THEN BOOLEAN ELSE {FALSE} :
                 logmgr' = [logmgr EXCEPT !.event = [logger |-> name, level |-> level],
                                          !.written = w, !.fault = fault]
    /\ UNCHANGED <<regVars, algVars, call, lead, prog, config, timer, usb, pool>>


\* ---------------------------------------------------------------------
\* The PF worker's tick loop against std::chrono::steady_clock, in
\* milliseconds. pf_worker.cpp sleeps until the deadline and then does the
\* tick's work; part_001 does the work and then sleeps until the deadline.

period == 10                 \* std::chrono::milliseconds(10)
MaxLaps == 3
MaxJitter == 1               \* how late the scheduler may wake a sleeper
WorkTimes == {2, 10, 13, 25} \* what one tick's filter step may take

InitTimer ==
    [pc |-> "start", impl |-> "none", now |-> 0, start |-> 0, next_tick |-> 0,
     laps |-> 0, ran |-> 0, late |-> FALSE, waited |-> 0]

\* a sleep of one period whatever the deadline is
sleep_for_period(now, sleep_time) == (now + period)..(now + period + MaxJitter)

\* std::this_thread::sleep_until: the times at which the caller may go on.
\* A deadline that has passed returns at once.
sleep_until(now, sleep_time) ==
    IF now >= sleep_time THEN {now} ELSE sleep_time..(sleep_time + MaxJitter)

\* auto next_tick = clock_t::now()  (part_001: auto next = Clock::now())
TimerStart ==
    /\ timer.pc = "start"
    /\ \E impl \in {"pf_worker", "part_001"} :
          timer' = [timer EXCEPT !.pc = "top", !.impl = impl,
                                 !.start = timer.now, !.next_tick = timer.now]
    /\ UNCHANGED <<regVars, algVars, call, lead, prog, config, logmgr, usb, pool>>

\* while (!stop_) { next_tick += 10 ms; ...
TimerAdvance ==
    /\ timer.pc = "top"
    /\ timer.laps < MaxLaps
    /\ timer' = [timer EXCEPT !.next_tick = @ + period, !.laps = @ + 1,
                    !.pc = IF timer.impl = "pf_worker" THEN "sleep" ELSE "work"]
    /\ UNCHANGED <<regVars, algVars, call, lead, prog, config, logmgr, usb, pool>>

\* std::this_thread::sleep_until(next_tick)
TimerSleep ==
    /\ timer.pc = "sleep"
    /\ \E woke \in sleep_until(timer.now, timer.next_tick) :
          timer' = [timer EXCEPT !.now = woke, !.waited = woke - timer.now,
                       !.late = (timer.now >= timer.next_tick),
                       !.pc = IF timer.impl = "pf_worker" THEN "work" ELSE "top"]
    /\ UNCHANGED <<regVars, algVars, call, lead, prog, config, logmgr, usb, pool>>

\* the tick's work: the version check, the filter step and the publish
TimerWork ==
    /\ timer.pc = "work"
    /\ \E d \in WorkTimes :
          timer' = [timer EXCEPT !.now = @ + d, !.ran = @ + 1,
                       !.pc = IF timer.impl = "pf_worker" THEN "top" ELSE "sleep"]
    /\ UNCHANGED <<regVars, algVars, call, lead, prog, config, logmgr, usb, pool>>

\* ---------------------------------------------------------------------
\* A USBCommunication object under any sequence of open(), close() and
\* sendData(). usable records what the calls have told the caller: the last
\* open() returned true and close() has not been called since.

MaxUsbCalls == 5

InitUsb ==
    [fd_ |-> -1, is_open_ |-> FALSE, op |-> "none", ret |-> FALSE,
     bytes |-> 0, usable |-> FALSE, was_usable |-> FALSE, was_open |-> FALSE,
     calls |-> 0]

\* USBCommunication::close()
close(is_open_, fd_) == [ret |-> TRUE, fd_ |-> -1, is_open_ |-> FALSE]

\* usb.open(): ::open returns sys_fd, tcgetattr and tcsetattr succeed or not
UsbOpen ==
    /\ usb.calls < MaxUsbCalls
    /\ \E sys_fd \in {-1, 3}, tc_ok \in BOOLEAN :
          LET r == open(usb.is_open_, usb.fd_, sys_fd, tc_ok)
          IN  usb' = [usb EXCEPT !.op = "open", !.ret = r.ret, !.fd_ = r.fd_,
                         !.is_open_ = r.is_open_, !.bytes = 0,
                         !.was_usable = usb.usable, !.was_open = usb.is_open_,
                         !.usable = r.ret, !.calls = @ + 1]
    /\ UNCHANGED <<regVars, algVars, call, lead, prog, config, logmgr, timer, pool>>

\* usb.close()
UsbClose ==
    /\ usb.calls < MaxUsbCalls
    /\ LET r == close(usb.is_open_, usb.fd_)
       IN  usb' = [usb EXCEPT !.op = "close", !.ret = r.ret, !.fd_ = r.fd_,
                      !.is_open_ = r.is_open_, !.bytes = 0,
                      !.was_usable = usb.usable, !.was_open = usb.is_open_,
                      !.usable = FALSE, !.calls = @ + 1]
    /\ UNCHANGED <<regVars, algVars, call, lead, prog, config, logmgr, timer, pool>>

\* usb.sendData(yaw, pitch, is_fire): write() returns written; bytes is what
\* reached the device
UsbSendData ==
    /\ usb.calls < MaxUsbCalls
    /\ \E is_fire \in BOOLEAN, written \in Written :
          LET r == sendData(usb.is_open_, usb.fd_, FloatOfHalves(2), FloatOfHalves(1),
                            is_fire, written)
              wrote == r.packet # <<>>
          IN  /\ (~wrote => written = -1 /\ ~is_fire)
              /\ usb' = [usb EXCEPT !.op = "sendData", !.ret = r.ret,
                            !.bytes = IF wrote /\ written > 0 THEN written ELSE 0,
                            !.was_usable = usb.usable, !.was_open = usb.is_open_,
                            !.calls = @ + 1]
    /\ UNCHANGED <<regVars, algVars, call, lead, prog, config, logmgr, timer, pool>>
\* ---------------------------------------------------------------------
\* ThreadPool. The statements a thread runs between locking mtx_ and
\* unlocking it are one step: the mutex lets no other thread in between.
\* The owner submits tasks 1, 2, .. from one thread and then destroys the pool.

NWorkers == 2
MaxTasks == 3
PoolWorkers == 1..NWorkers

\* ThreadPool(n_workers): every worker thread is at the top of worker_loop
InitPool ==
    [tasks_ |-> <<>>, stop_ |-> FALSE,
     at |-> [w \in PoolWorkers |-> "wait"], job |-> [w \in PoolWorkers |-> 0],
     owner |-> "idle", submitted |-> 0, taken |-> <<>>, ran |-> <<>>,
     joined |-> {}]

Blocked(at) == {w \in PoolWorkers : at[w] = "blocked"}

\* a notification that reaches no thread
notify_lost(at) == {at}

\* cv_.notify_one(): one of the threads blocked in cv_.wait is made runnable,
\* none when no thread is blocked
notify_one(at) ==
    IF Blocked(at) = {} THEN {at}
    ELSE {[at EXCEPT ![w] = "wait"] : w \in Blocked(at)}

\* cv_.notify_all()
notify_all(at) == [w \in PoolWorkers |-> IF at[w] = "blocked" THEN "wait" ELSE at[w]]

\* worker_loop line 133, the predicate of cv_.wait
wait_pred(stop_, tasks_) == stop_ \/ tasks_ # <<>>

\* a worker that leaves as soon as stop_ is set
return_on_stop(stop_, tasks_) == stop_

\* worker_loop line 134: if (stop_ && tasks_.empty()) return
should_return(stop_, tasks_) == stop_ /\ tasks_ = <<>>

\* worker_loop lines 132-137 with the lock held: block on cv_ while the
\* predicate is false, return, or take the front task
PoolWait(w) ==
    /\ pool.at[w] = "wait"
    /\ pool' =
         IF ~wait_pred(pool.stop_, pool.tasks_)
         THEN [pool EXCEPT !.at[w] = "blocked"]
         ELSE IF should_return(pool.stop_, pool.tasks_)
         THEN [pool EXCEPT !.at[w] = "returned"]
         ELSE [pool EXCEPT !.at[w] = "run", !.job[w] = Head(pool.tasks_),
                          !.tasks_ = Tail(pool.tasks_),
                          !.taken = Append(@, Head(pool.tasks_))]
    /\ UNCHANGED <<regVars, algVars, call, lead, prog, config, logmgr, timer, usb>>

\* cv_.wait may return without a notification
PoolSpuriousWake(w) ==
    /\ pool.at[w] = "blocked"
    /\ pool' = [pool EXCEPT !.at[w] = "wait"]
    /\ UNCHANGED <<regVars, algVars, call, lead, prog, config, logmgr, timer, usb>>

\* worker_loop line 138: job()
PoolRun(w) ==
    /\ pool.at[w] = "run"
    /\ pool' = [pool EXCEPT !.at[w] = "wait", !.job[w] = 0,
                            !.ran = Append(@, [task |-> pool.job[w], worker |-> w])]
    /\ UNCHANGED <<regVars, algVars, call, lead, prog, config, logmgr, timer, usb>>

PoolWorker(w) == PoolWait(w) \/ PoolRun(w)

\* submit lines 152-155: tasks_.emplace under the lock
PoolSubmit ==
    /\ pool.owner = "idle"
    /\ pool.submitted < MaxTasks
    /\ pool' = [pool EXCEPT !.tasks_ = Append(@, pool.submitted + 1),
                            !.submitted = @ + 1, !.owner = "notify_one"]
    /\ UNCHANGED <<regVars, algVars, call, lead, prog, config, logmgr, timer, usb>>

\* submit line 156
PoolSubmitNotify ==
    /\ pool.owner = "notify_one"
    /\ \E at \in notify_one(pool.at) :
          pool' = [pool EXCEPT !.at = at, !.owner = "idle"]
    /\ UNCHANGED <<regVars, algVars, call, lead, prog, config, logmgr, timer, usb>>

\* ~ThreadPool lines 118-121: stop_ = true under the lock
PoolStop ==
    /\ pool.owner = "idle"
    /\ pool' = [pool EXCEPT !.stop_ = TRUE, !.owner = "notify_all"]
    /\ UNCHANGED <<regVars, algVars, call, lead, prog, config, logmgr, timer, usb>>

\* ~ThreadPool line 122
PoolStopNotify ==
    /\ pool.owner = "notify_all"
    /\ pool' = [pool EXCEPT !.at = notify_all(pool.at), !.owner = "join"]
    /\ UNCHANGED <<regVars, algVars, call, lead, prog, config, logmgr, timer, usb>>

\* ~ThreadPool lines 123-125: the workers are joined in the order of workers_
PoolJoin ==
    /\ pool.owner = "join"
    /\ LET w == CHOOSE v \in PoolWorkers \ pool.joined :
                    \A u \in PoolWorkers \ pool.joined : v <= u
       IN  /\ pool.at[w] = "returned"
           /\ pool' = [pool EXCEPT !.joined = @ \cup {w},
                          !.owner = IF pool.joined \cup {w} = PoolWorkers
                                    THEN "destroyed" ELSE "join"]
    /\ UNCHANGED <<regVars, algVars, call, lead, prog, config, logmgr, timer, usb>>

PoolOwner == PoolSubmitNotify \/ PoolStopNotify \/ PoolJoin

InitExt ==
    /\ call = NoCall /\ lead = InitLead /\ prog = InitProg
    /\ config = InitConfig /\ logmgr = InitLogMgr
    /\ timer = InitTimer /\ usb = InitUsb /\ pool = InitPool

Init == InitReg /\ InitAlg /\ InitExt

\* The worker threads, scheduled in any order.
Workers5 ==
    \/ CameraPublish \/ CameraBump
    \/ IMURetry \/ IMUPublish \/ IMUBump
    \/ DetLoadVer \/ DetLoadCam \/ DetLoadImu \/ DetLoadImu2
    \/ DetNoRobot \/ DetPublish \/ DetBump
    \/ PfLoadVer \/ PfAtomicLoad \/ PfPlainReadPtr \/ PfPlainReadCtl
    \/ PfStepAtomicStore \/ PfStepPlainStorePtr \/ PfPlainStoreCtl \/ PfBump
    \/ PredLoadVer \/ PredLoadPf \/ PredLoadImu \/ PredPublish \/ PredBump

Shutdown ==
    \/ SetStop
    \/ CameraExit \/ IMUExit \/ DetExit \/ PfExit \/ PredExit

\* The pipeline while it runs, within one reading of the clock: stop is not
\* set.  A worker that has left its loop takes no further step, so every value
\* of the registry and of the workers' locals that a run with shutdown reaches
\* is reached here too.
Next == Workers5
Spec == Init /\ [][Next]_vars

\* The pipeline while time passes.
NextTimed == Workers5 \/ Tick
SpecTimed == Init /\ [][NextTimed]_vars

\* The pipeline with shutdown.
NextStop == Workers5 \/ Shutdown
SpecStop == Init /\ [][NextStop]_vars

\* The pipeline with shutdown, each worker on a thread of its own that keeps
\* being scheduled, and every call inside an iteration returning.
CameraLoop == CameraPublish \/ CameraBump \/ CameraExit
IMULoop == IMURetry \/ IMUPublish \/ IMUBump \/ IMUExit
DetLoop ==
    \/ DetLoadVer \/ DetLoadCam \/ DetLoadImu \/ DetLoadImu2
    \/ DetNoRobot \/ DetPublish \/ DetBump \/ DetExit
PfLoop ==
    \/ PfLoadVer \/ PfAtomicLoad \/ PfPlainReadPtr \/ PfPlainReadCtl
    \/ PfStepAtomicStore \/ PfStepPlainStorePtr \/ PfPlainStoreCtl \/ PfBump
    \/ PfExit
PredLoop ==
    \/ PredLoadVer \/ PredLoadPf \/ PredLoadImu \/ PredPublish \/ PredBump
    \/ PredExit
SpecStopFair ==
    /\ Init /\ [][NextStop]_vars
    /\ WF_vars(CameraLoop) /\ WF_vars(IMULoop) /\ WF_vars(DetLoop)
    /\ WF_vars(PfLoop) /\ WF_vars(PredLoop)

\* The PF worker against a Detection worker that publishes frame after frame.
NextPfRace ==
    \/ DetPublishNext \/ DetBump
    \/ PfLoadVer \/ PfAtomicLoad \/ PfPlainReadPtr \/ PfPlainReadCtl
    \/ PfStepAtomicStore \/ PfStepPlainStorePtr \/ PfPlainStoreCtl \/ PfBump
SpecPfRace == Init /\ [][NextPfRace]_vars

\* The helper functions, each applied to arguments drawn from its inputs.
NextHelper ==
    \/ CallWrapPi \/ CallClamp \/ CallFromOneArmor \/ CallSendData
    \/ CallMotionModel \/ CallFormatterInit \/ CallRotations
SpecHelper == Init /\ [][NextHelper]_vars

\* compute_prediction called on one filter mean after another.
NextLead == LeadEnter \/ LeadIter \/ LeadLeave \/ LeadPublish
SpecLead == Init /\ [][NextLead]_vars

\* The configuration registry: listeners come and go, values arrive as
\* strings and as YAML documents.
NextConfig ==
    \/ ConfigAddListener \/ ConfigDelListener
    \/ ConfigFromString \/ ConfigLoadFromYaml
SpecConfig == Init /\ [][NextConfig]_vars

\* Loggers and appenders being wired up and given formatters.
NextFormatter ==
    \/ LogNewAppender \/ LogGetLogger \/ LogAddAppender
    \/ LogLoggerSetFormatter \/ LogAppenderSetFormatterStr
    \/ LogAppenderSetFormatterPtr \/ LogRecord
SpecFormatter == Init /\ [][NextFormatter]_vars

\* Loggers and appenders being wired up, given levels and logged through.
NextLevel ==
    \/ LogNewAppender \/ LogGetLogger \/ LogAddAppender
    \/ LogLoggerSetLevel \/ LogAppenderSetLevel \/ LogRecord
SpecLevel == Init /\ [][NextLevel]_vars

\* The logs configuration reloaded again and again, records logged in
\* between.
NextLogs == LogsFromString \/ LogRecord
SpecLogs == Init /\ [][NextLogs]_vars

\* The USB test program.
NextMain == MainOpen \/ MainCheck \/ MainSend
SpecMain == Init /\ [][NextMain]_vars

\* The Detection worker given one frame after another.
\* The PF worker's tick loop alone.
NextTimer == TimerStart \/ TimerAdvance \/ TimerSleep \/ TimerWork
SpecTimer == Init /\ [][NextTimer]_vars

\* A USBCommunication object driven by any caller.
NextUsb == UsbOpen \/ UsbClose \/ UsbSendData
SpecUsb == Init /\ [][NextUsb]_vars

\* A ThreadPool, its workers and its owner, scheduled in any order.
NextPool ==
    \/ \E w \in PoolWorkers : PoolWait(w) \/ PoolRun(w) \/ PoolSpuriousWake(w)
    \/ PoolSubmit \/ PoolSubmitNotify
    \/ PoolStop \/ PoolStopNotify \/ PoolJoin
SpecPool == Init /\ [][NextPool]_vars

\* A runnable thread is scheduled in the end: every worker, and the owner
\* inside submit and inside the destructor. Whether the owner submits another
\* task or destroys the pool is its choice, and no wake-up is owed without a
\* notification.
SpecPoolFair ==
    /\ Init /\ [][NextPool]_vars
    /\ \A w \in PoolWorkers : WF_vars(PoolWorker(w))
    /\ WF_vars(PoolOwner)

NextDetect == FrameGroup \/ FrameSelect \/ FrameWorld \/ FrameForm
SpecDetect == Init /\ [][NextDetect]_vars

(***************************************************************************)
(* Claims about the registry.                                              *)
(***************************************************************************)
\* a handle read after version v was read: a whole handle, of publish v or later
Fresh(h, v) == v >= 1 => (~Torn(h) /\ h.ptr >= v)

\* C1: for every slot, a consumer that loads version v >= 1 and then loads
\* the slot handle obtains the snapshot of the v-th publish or of a later
\* one, never an older snapshot and never an absent handle.
C1_ReaderSeesPublishedVersion ==
    [][/\ (pc.detection = "cam" /\ pc'.detection # "cam")
            => Fresh(det'.cam, det'.cur_ver)
       /\ (pc.pf \in {"read", "read2"} /\ pc'.pf = "store")
            => Fresh(pfw'.det_ptr, pfw'.det_ver)
       /\ (pc.prediction = "pf" /\ pc'.prediction # "pf")
            => Fresh(pred'.pf, pred'.cur_ver)]_vars

\* C2: every publish replaces the slot handle in one atomic step and every
\* consumer read of a handle is one atomic step: no slot and no reader ever
\* holds a partially written handle.
C2_HandlesNeverTorn ==
    /\ \A s \in Slots : ~Torn(slot[s])
    /\ ~Torn(det.cam) /\ ~Torn(det.imu)
    /\ ~Torn(pfw.det_ptr)
    /\ ~Torn(pred.pf) /\ ~Torn(pred.imu)

\* the producer of slot s has stored a handle and not yet bumped the version
Pending(s) ==
    CASE s = "camera" -> pc.camera = "bump"
      [] s = "imu" -> pc.imu = "bump"
      [] s = "detection_out" -> pc.detection = "bump"
      [] s = "pf_out" -> pc.pf \in {"store2", "bump"}
      [] s = "prediction_out" -> pc.prediction = "bump"

\* C3: for each slot the version counter never decreases under any
\* interleaving of the workers, and it increases by exactly one for each
\* publish to that slot (it counts the publishes whose bump has run).
C3_VersionCountsPublishes ==
    /\ [](\A s \in Slots : ver[s] + (IF Pending(s) THEN 1 ELSE 0) = Len(heap[s]))
    /\ [][\A s \in Slots : ver'[s] = ver[s] \/ ver'[s] = ver[s] + 1]_vars

\* every slot has been published to, and the pf slot twice
C3_Witness == (\A s \in Slots : ver[s] >= 1) /\ ver.pf_out = 2

\* C4: once a snapshot has been published, none of its fields changes:
\* every publish allocates a fresh snapshot and no step writes to an
\* existing one.
C4_SnapshotsImmutable ==
    [][\A s \in Slots : \A i \in 1..Len(heap[s]) :
          Len(heap'[s]) >= i /\ heap'[s][i] = heap[s][i]]_vars

\* Prediction still holds the first pf snapshot after the second was published
C4_Witness ==
    /\ pc.prediction = "store"
    /\ pred.pf = Handle(1)
    /\ slot.pf_out = Handle(2)

(***************************************************************************)
(* Claims about the Detection worker's selector.                           *)
(***************************************************************************)
\* the groups, numbered from 1, whose mean armor distance is least
MeanClosest(groups) ==
    {i \in 1..Len(groups) :
        \A j \in 1..Len(groups) : avg_dist2(groups[i]) <= avg_dist2(groups[j])}

\* C5: when no robot is selected (selected id < 0) and at least one group
\* is present, select_armor sets the selected id to the class id of the
\* group with the smallest mean armor distance, sets ttl to MAX_TTL and
\* emits that group's armors; for the groups [class 3 at distance 5,
\* class 7 at distance 3] the selected id is 7.
C5_IdleSelectsClosestClass ==
    [][(/\ fstep = "select" /\ fstep' = "world"
        /\ sel.selected_robot_id < 0
        /\ grouped_armors # <<>>)
       => \E i \in MeanClosest(grouped_armors) :
            /\ sel'.selected_robot_id = grouped_armors[i][1].class_id
            /\ sel'.ttl = MAX_TTL
            /\ sel'.selected_armors = grouped_armors[i]]_vars

\* C6: after select_armor has acquired a robot, in every following cycle in
\* which a group of that robot's class id is present, select_armor emits
\* that group's armors, keeps the selected id and sets ttl to MAX_TTL.  The
\* robot held is the one whose armors the selector emitted last.
C6_TrackedRobotReEmitted ==
    [][(/\ fstep = "select" /\ fstep' = "world"
        /\ sel.selected_robot_id >= 0
        /\ sel.selected_armors # <<>>
        /\ \E i \in 1..Len(grouped_armors) :
              grouped_armors[i][1].class_id = sel.selected_armors[1].class_id)
       => /\ sel'.selected_robot_id = sel.selected_robot_id
          /\ sel'.ttl = MAX_TTL
          /\ \E i \in 1..Len(grouped_armors) :
                /\ grouped_armors[i][1].class_id = sel.selected_armors[1].class_id
                /\ sel'.selected_armors = grouped_armors[i]]_vars

\* C7: given a frame with no groups, select_armor decreases ttl by dt; the
\* selected id is kept while ttl stays above 0, and as soon as ttl <= 0 the
\* selected id becomes -1 and the emitted armors are cleared.  From a tracked
\* id with ttl = MAX_TTL, the id is still held after n consecutive empty
\* frames when n * dt < MAX_TTL, and is cleared when n * dt >= MAX_TTL.
C7_EmptyFramesDrainTtl ==
    /\ [][(fstep = "select" /\ fstep' = "world" /\ grouped_armors = <<>>)
           => /\ sel'.ttl = sel.ttl - dt
              /\ sel'.ttl > 0 => sel'.selected_robot_id = sel.selected_robot_id
              /\ sel'.ttl <= 0 => (sel'.selected_robot_id = -1
                                   /\ sel'.selected_armors = <<>>)]_vars
    /\ []((run.n > 0 /\ run.selected_robot_id >= 0 /\ run.ttl = MAX_TTL)
           => IF run.n * dt < MAX_TTL
              THEN sel.selected_robot_id = run.selected_robot_id
              ELSE sel.selected_robot_id = -1)
\* a tracked id held through two empty frames, and cleared by a later one
C7_Witness ==
    /\ run.n >= 3 /\ run.n * dt >= MAX_TTL
    /\ run.selected_robot_id >= 0 /\ run.ttl = MAX_TTL
    /\ sel.selected_robot_id = -1 /\ sel.selected_armors = <<>>

\* C28: when a robot is tracked and the groups are non-empty with none of
\* them carrying the tracked id, select_armor decreases ttl by dt; while the
\* result is > 0 it emits no armors and keeps the selected id, otherwise it
\* selects the group with the least mean armor distance, emits its armors
\* and sets ttl to MAX_TTL.
C28_GraceThenSwitch ==
    [][(/\ fstep = "select" /\ fstep' = "world"
        /\ sel.selected_robot_id >= 0
        /\ grouped_armors # <<>>
        /\ \A i \in 1..Len(grouped_armors) :
              grouped_armors[i][1].class_id # sel.selected_robot_id)
       => IF sel.ttl - dt > 0
          THEN /\ sel'.ttl = sel.ttl - dt
               /\ sel'.selected_armors = <<>>
               /\ sel'.selected_robot_id = sel.selected_robot_id
          ELSE \E i \in MeanClosest(grouped_armors) :
                 /\ sel'.selected_robot_id = grouped_armors[i][1].class_id
                 /\ sel'.selected_armors = grouped_armors[i]
                 /\ sel'.ttl = MAX_TTL]_vars

\* C8: whenever the PF worker consumes a new detection snapshot whose
\* pf_state is RESET, it resets the particle set from that measurement
\* before it runs that tick's predict-then-update step.
C8_ResetBeforeStep ==
    (pc.pf \in {"store2", "bump"} /\ pfw.has_meas
        /\ heap.detection_out[pfw.meas].pf_state = PF_STATE_RESET)
    => pfw.ops = <<"reset", "step">>

\* C9: for a camera frame in which the selector emits one or two armors,
\* the RobotState that Detection hands to the detection slot is the state
\* from_one_armor / from_two_armors reconstructed from those armors (same
\* position, yaw, r1, r2 and class id), stamped with that frame's timestamp.
C9_PublishedStateIsReconstructed ==
    (fstep = "group" /\ robot # NoRobot /\ Len(sel.selected_armors) \in {1, 2})
    => /\ robot.state = prev.prev_robot_.state
       /\ robot.class_id = prev.prev_robot_.class_id
       /\ robot.timestamp = frame.timestamp

\* C16: every RobotState handed to the detection slot has r1 > 0 and
\* r2 > 0, and the state formed from one armor without a valid prior has
\* r1 = r2 = DEFAULT_ROBOT_RADIUS and yaw = det.yaw_rad.
C16_PublishedRadii ==
    /\ [](robot # NoRobot => (robot.state.R1 > 0 /\ robot.state.R2 > 0))
    /\ [][(/\ fstep = "form" /\ fstep' = "group"
            /\ Len(sel.selected_armors) = 1
            /\ prev.has_init /\ ~prev.has_prev_robot_)
           => /\ robot'.state.R1 = DEFAULT_ROBOT_RADIUS
              /\ robot'.state.R2 = DEFAULT_ROBOT_RADIUS
              /\ robot'.state.YAW = sel.selected_armors[1].yaw_rad]_vars

\* C10: every RobotState published to the pf slot for a tick that used a
\* measurement carries the timestamp of the CameraFrame that measurement
\* was produced from.
C10_PfTimestampIsFrameTimestamp ==
    \A i \in 1..Len(heap.pf_out) :
        LET out == heap.pf_out[i] IN
          out.meas # 0 =>
            out.timestamp = heap.camera[heap.detection_out[out.meas].cam].timestamp

\* C11: for every PredictionOut published to the prediction slot, a pf
\* snapshot and a camera snapshot have been published whose timestamps are
\* not later than the PredictionOut's own timestamp.
C11_PredictionAfterPfAndCamera ==
    \A i \in 1..Len(heap.prediction_out) :
        /\ \E p \in 1..Len(heap.pf_out) :
              heap.pf_out[p].timestamp <= heap.prediction_out[i].timestamp
        /\ \E c \in 1..Len(heap.camera) :
              heap.camera[c].timestamp <= heap.prediction_out[i].timestamp

(***************************************************************************)
(* Claims about the helper functions.                                      *)
(***************************************************************************)
\* C12: for any input (yaw, pitch), after clamp_to_gimbal_limits the pitch
\* lies in [pitch_min + margin, pitch_max - margin] and, with
\* has_yaw_limits false, the yaw lies in (-pi, pi].
C12_GimbalClampRange ==
    call.fn = "clamp_to_gimbal_limits" =>
        /\ GIMBAL_PITCH_MIN + GIMBAL_SAFETY_MARGIN <= call.res[2]
        /\ call.res[2] <= GIMBAL_PITCH_MAX - GIMBAL_SAFETY_MARGIN
        /\ ~GIMBAL_HAS_YAW_LIMITS => (-PI < call.res[1] /\ call.res[1] <= PI)

\* the angle in (-pi, pi] that differs from a by whole turns
WrapHalfOpen(a) == ((a + PI - 1) % TWO_PI) - PI + 1
\* the sector of a yaw: quarter turns counted from -pi/4
SectorOf(yaw) == ((WrapHalfOpen(yaw) + QUARTER_PI + TWO_PI) \div HALF_PI) % 4
YawCandidates(prev_yaw) == {prev_yaw, prev_yaw + HALF_PI, prev_yaw - HALF_PI, prev_yaw + PI}
YawError(cand, armor_yaw) == Abs(WrapHalfOpen(cand - armor_yaw))

\* C17: with a valid prior, from_one_armor sets the yaw to the candidate
\* among prev, prev + pi/2, prev - pi/2, prev + pi with the smallest
\* |wrap_pi(candidate - det.yaw_rad)|, wrapped into (-pi, pi], and places the
\* centre with r2 when the sector of that yaw is odd and with r1 when it is
\* even; for prior yaw 0 and det.yaw_rad just below pi/2 the yaw is pi/2,
\* its sector is 1 and the radius is r2.
C17_YawRefinement ==
    (call.fn = "from_one_armor" /\ call.arg[3]) =>
        LET d == call.arg[1]
            prior == call.arg[2]
            got == call.res[1].robot
            r == IF SectorOf(got.state.YAW) % 2 = 1 THEN prior.state.R2 ELSE prior.state.R1
        IN  /\ \E cand \in YawCandidates(prior.state.YAW) :
                  /\ \A other \in YawCandidates(prior.state.YAW) :
                        YawError(cand, d.yaw_rad) <= YawError(other, d.yaw_rad)
                  /\ got.state.YAW = WrapHalfOpen(cand)
            /\ got.state.TX = d.tvec[1] - Milli(r * sin(d.yaw_rad))
            /\ got.state.TZ = d.tvec[3] + Milli(r * cos(d.yaw_rad))
            /\ (prior.state.YAW = 0 /\ d.yaw_rad = HALF_PI - 1)
                  => (got.state.YAW = HALF_PI /\ SectorOf(got.state.YAW) = 1
                      /\ r = prior.state.R2)

\* C18: wrap_pi returns a value in the half-open interval (-pi, pi] for
\* every finite input angle, positive or negative.
C18_WrapPiRange ==
    call.fn = "wrap_pi" => (-PI < call.res[1] /\ call.res[1] <= PI)

\* C19: from_one_armor is idempotent for a fixed detection: called a second
\* time with the same detection on the state the first call produced, it
\* yields exactly the state of the first call (yaw, radii, position, class).
C19_FromOneArmorIdempotent ==
    call.fn = "from_one_armor" => call.res[2] = call.res[1]

\* ---- Claims about the PF tick ----
NotReset(op) == op # "reset"

\* C27: on every PF tick exactly one filter operation runs, a
\* predict-then-update step with the measurement when the detection version
\* is new and a snapshot is present, a predict-only step otherwise; the tick
\* publishes exactly one RobotState and increments pf.version by one.
C27_OneFilterOpPerTick ==
    /\ [](pc.pf = "bump" =>
            LET stepped == pfw.has_new_det /\ pfw.det_ptr.ptr # 0
            IN  /\ SelectSeq(pfw.ops, NotReset) =
                       (IF stepped THEN <<"step">> ELSE <<"predict">>)
                /\ stepped => /\ ~Torn(pfw.det_ptr)
                              /\ heap.pf_out[Len(heap.pf_out)].meas = pfw.det_ptr.ptr
                /\ Len(heap.pf_out) = ver.pf_out + 1
                /\ slot.pf_out = Handle(Len(heap.pf_out)))
    /\ [][(pc.pf = "bump" /\ pc'.pf = "top") => ver'.pf_out = ver.pf_out + 1]_vars

\* ---- Claims about the serial frame ----
\* the float whose object representation is bytes k .. k+3 of the frame
FloatAt(packet, k) ==
    Float(packet[k + 4] \div 128,
          (packet[k + 4] % 128) * 2 + packet[k + 3] \div 128,
          (packet[k + 3] % 128) * 65536 + packet[k + 2] * 256 + packet[k + 1])

\* C15: the frame sendData builds has 11 bytes: 0xAA, the yaw float, the
\* pitch float, 0x01 or 0x00 for fire, and the XOR of bytes 0..9; reading
\* the fields back gives (yaw, pitch, fire) and the XOR of all 11 bytes is 0.
C15_FrameLayoutRoundTrip ==
    (call.fn = "sendData" /\ call.arg[1])
    => LET packet == call.res[1].packet
           yaw == call.arg[2]
           pitch == call.arg[3]
           is_fire == call.arg[4]
       IN  /\ Len(packet) = 11
           /\ packet[1] = 170
           /\ \A i \in 1..11 : packet[i] \in 0..255
           /\ <<packet[2], packet[3], packet[4], packet[5]>> = memcpy_float(yaw)
           /\ <<packet[6], packet[7], packet[8], packet[9]>> = memcpy_float(pitch)
           /\ packet[10] = (IF is_fire THEN 1 ELSE 0)
           /\ packet[11] = XorFold(packet, 1, 10)
           /\ FloatAt(packet, 1) = yaw
           /\ FloatAt(packet, 5) = pitch
           /\ (packet[10] = 1) = is_fire
           /\ XorFold(packet, 1, 11) = 0

C15_Witness ==
    /\ call.fn = "sendData"
    /\ call.arg[1]
    /\ call.arg[2] = Float(0, 128, 4788187)
    /\ call.arg[3] = Float(1, 127, 0)
    /\ call.arg[4]
    /\ call.res[1].ret
    /\ call.res[1].packet = <<170, 219, 15, 73, 64, 0, 0, 128, 191, 1, 73>>

\* ---- Claims about shutdown ----
LoopTop ==
    [camera |-> "store", imu |-> "store", detection |-> "ver",
     pf |-> "top", prediction |-> "ver"]

\* C14: once stop is set every worker loop exits, and none starts an
\* iteration after it: a worker at its iteration boundary with stop set
\* stays there or leaves, whichever path brought it to the boundary.
C14_StopEndsEveryLoop ==
    /\ stop ~> (\A w \in Workers : pc[w] = "done")
    /\ [][\A w \in Workers :
            (stop /\ pc[w] = LoopTop[w]) => pc'[w] \in {LoopTop[w], "done"}]_vars

C14_Witness ==
    /\ stop
    /\ \A w \in Workers : pc[w] = "done"
    /\ ver.camera > 0
    /\ det.cur_ver = det.last_cam_ver_

\* ---- Claims about compute_prediction ----

\* C13: for every robot state within 20 m and every bullet speed in
\* [5, 40] m/s the lead-time loop evaluates the motion model at most 10
\* times: the body is never entered again after the tenth evaluation.
C13_LeadLoopBounded ==
    (/\ lead.pc # "idle"
     /\ tvec_distance(<<lead.rs[1], lead.rs[2], lead.rs[3]>>) <= 200
     /\ lead.bullet_speed >= 50 /\ lead.bullet_speed <= 400)
    => /\ lead.iter <= PRED_CONV_MAX_ITERS
       /\ (lead.pc = "body" => lead.iter < PRED_CONV_MAX_ITERS)

C13_Witness ==
    /\ lead.pc = "done"
    /\ lead.iter = PRED_CONV_MAX_ITERS
    /\ tvec_distance(<<lead.rs[1], lead.rs[2], lead.rs[3]>>) = 200

\* C26: the PredictionOut published for a consumed PF state carries what
\* compute_prediction computed for it: yaw_cmd = atan2(x, z) and pitch_cmd =
\* atan2(y, z) of the drop-corrected camera-frame lead position, fire =
\* (|x| < Wtol/2 and |y| < Htol/2), chase = (z > 6.0) and aim = true.
C26_PublishedCarriesComputed ==
    [][(lead.pc = "publish" /\ lead'.pc = "idle")
       => LET x == lead.pos_lead[1]
              y == lead.pos_lead[2]
              z == lead.pos_lead[3]
          IN  /\ lead'.out.yaw_cmd = atan2(x, z)
              /\ lead'.out.pitch_cmd = atan2(y, z)
              /\ lead'.out.fire = (20 * Abs(x) < 13 /\ 20 * Abs(y) < 13)
              /\ lead'.out.chase = (z > 60)
              /\ lead'.out.aim = TRUE]_vars

\* C29: the lead-time loop stops as soon as two successive lead-time
\* estimates differ by less than 0.01 s, and goes on to the full 10
\* iterations only when they never do.
C29_StopsWhenEstimatesAgree ==
    [][(lead.pc = "body" /\ lead'.pc # "idle")
       => LET agree == Abs(lead'.t_lead - lead.t_lead) < PREDICTION_CONVERGENCE_THRESHOLD
          IN  /\ agree => lead'.pc = "done"
              /\ (~agree /\ lead'.iter < PRED_CONV_MAX_ITERS) => lead'.pc = "body"]_vars

\* the centre moved by radius r along the plate direction of yaw
OffsetBy(state, yaw, r) ==
    LET yaw_restrict == fmod(yaw + QUARTER_PI, PI) - QUARTER_PI
    IN  <<state[1] + Milli(r * sin(yaw_restrict)),
          state[2] + state[15],
          state[3] - Milli(r * cos(yaw_restrict))>>

\* C30: motion_model_robot offsets the predicted centre with r2 when the
\* sector of the predicted yaw is odd and with r1 when it is even.
C30_RadiusBySectorParity ==
    call.fn = "motion_model_robot"
    => LET state == call.arg[1]
           t == call.arg[2]
           yaw == state[10] + Milli(state[11] * t)
           r == IF SectorOf(yaw) % 2 = 1 THEN state[14] ELSE state[13]
       IN  call.res[1] = OffsetBy(state, yaw, r)

\* ---- Claims about the USB test program ----

\* C20: when opening the serial device fails the program logs at FATAL and
\* returns 1 without having written a frame, and no frame is written unless
\* open() has returned true.
C20_OpenFailureIsFatal ==
    /\ [](prog.pc = "exit" =>
            /\ ~prog.open_ret
            /\ "FATAL" \in prog.log
            /\ prog.exit_code = 1
            /\ prog.writes = 0)
    /\ [](prog.writes > 0 \/ prog.sent > 0 => prog.open_ret)
    /\ [][(prog.pc = "check" /\ ~prog.open_ret) => prog'.pc = "exit"]_vars

C20_Witness ==
    /\ prog.pc = "exit"
    /\ prog.fd_ < 0
    /\ prog.exit_code = 1
    /\ prog.sent = 0

\* C21: when one value is handed to a registered configuration variable,
\* from a string or from a YAML document, then a value different from the
\* current one is what getValue() returns afterwards and every registered
\* listener has been called once with (old value, new value), and an equal
\* value calls no listener and changes nothing.
C21_ChangeIsStoredAndNotified ==
    [][(config'.op \in {"fromString", "LoadFromYaml"} /\ Len(config'.given) = 1)
       => LET name == config'.given[1][1]
              v == config'.given[1][2]
              old == getValue(config, name)
              keys == KeysInOrder(config.datas[name].m_cbs)
          IN  IF v # old
              THEN /\ getValue(config', name) = v
                   /\ config'.notified =
                          [i \in 1..Len(keys) |-> <<name, keys[i], old, v>>]
              ELSE /\ config'.notified = <<>>
                   /\ config'.datas = config.datas]_vars

\* C24: a `%%` appended to a pattern that parses without error is parsed as
\* one literal '%' printed after everything the pattern printed, and the
\* error flag stays clear, whatever the pattern ends with: literal text, a
\* specifier such as %m, or a %d{...} block.
EscapeAppended ==
    LET pat == call.arg[1]
        pre == SubSeq(pat, 1, Len(pat) - 2)
    IN  /\ call.fn = "LogFormatter::init"
        /\ Len(pat) >= 2
        /\ SubSeq(pat, Len(pat) - 1, Len(pat)) = <<"%", "%">>
        /\ ~init(pre).m_error
C24_PercentEscapeAnywhere ==
    EscapeAppended
    => LET pat == call.arg[1]
           pre == SubSeq(pat, 1, Len(pat) - 2)
       IN  /\ ~call.res[1].m_error
           /\ Printed(call.res[1].m_items) = Printed(init(pre).m_items) \o <<"%">>

\* C23: every appender attached to a logger formats with its own formatter
\* when one is currently set on it and with the logger's current formatter
\* otherwise, whatever addAppender and setFormatter calls came before.
C23_AppenderFollowsLogger ==
    \A name \in DOMAIN logmgr.loggers :
       \A i \in 1..Len(logmgr.loggers[name].m_appenders) :
          LET ap == logmgr.appenders[logmgr.loggers[name].m_appenders[i]]
          IN  ~ap.m_hasFormatter => ap.m_formatter = logmgr.loggers[name].m_formatter

\* C25: a record of level L logged through a logger that has appenders is
\* written by each of them exactly when L >= the logger's level and L >= the
\* appender's level; a logger with no appenders hands the record it admits
\* to the root logger, whose appenders write it exactly when L >= the root
\* logger's level and L >= their own level.
Occurrences(s, x) == Cardinality({i \in 1..Len(s) : s[i] = x})
WrittenBy(a) == Cardinality({i \in 1..Len(logmgr.written) : logmgr.written[i].appender = a})
LogsGiven ==
    /\ config.given # <<>>
    /\ config.given[1][1] = <<"l", "o", "g", "s">>
MatchesDefine(d) ==
    /\ d.name \in DOMAIN logmgr.loggers
    /\ LET lg == logmgr.loggers[d.name]
       IN  /\ lg.m_level = d.level
           /\ d.formatter # <<>> => getPattern(lg.m_formatter) = d.formatter
           /\ Len(lg.m_appenders) = Len(d.appenders)
           /\ \A k \in 1..Len(d.appenders) :
                 LET ap == logmgr.appenders[lg.m_appenders[k]]
                     a == d.appenders[k]
                 IN  /\ ap.type = a.type
                     /\ ap.m_level = a.level
                     /\ ap.m_formatter =
                           IF a.formatter # <<>> THEN LogFormatter(a.formatter)
                           ELSE lg.m_formatter
C22_LogsReloadTakesEffect ==
    LogsGiven
    => LET new_value == config.given[1][2]
       IN  /\ ~logmgr.fault
           /\ \A k \in 1..Len(new_value) : MatchesDefine(new_value[k])
           /\ \A name \in DOMAIN logmgr.loggers \ {"root"} :
                 find(new_value, name) = 0
                 => \A level \in LogLevels : Logger_log(logmgr, name, level) = <<>>

\* C31: for every yaw and pitch that are multiples of pi/2,
\* make_R_cam2world_from_yaw_pitch returns R_yaw(yaw) * R_pitch(pitch) and
\* make_R_world2cam_from_yaw_pitch returns the transpose of that matrix.
C31_Cam2WorldIsYawTimesPitch ==
    call.fn = "make_R"
    => LET yaw == call.arg[1]
           pitch == call.arg[2]
           R_pitch == << <<1000, 0, 0>>,
                         <<0, cos(pitch), -sin(pitch)>>,
                         <<0, sin(pitch), cos(pitch)>> >>
           R_yaw == << <<cos(yaw), -sin(yaw), 0>>,
                       <<sin(yaw), cos(yaw), 0>>,
                       <<0, 0, 1000>> >>
       IN  /\ call.res[1] = MatMul(R_yaw, R_pitch)
           /\ call.res[2] = Transpose(MatMul(R_yaw, R_pitch))

\* C32: a Detection or Prediction iteration that reads an upstream version
\* equal to the last one it consumed goes back to the top of its loop: it
\* loads no snapshot, leaves the slots, the versions and the snapshots as
\* they are and publishes nothing; and each of the two workers has published
\* at most once per version change it observed, so never more often than
\* the version it last consumed counts.
C32_UnchangedVersionIsSkipped ==
    [][/\ (pc.detection = "ver" /\ ver.camera = det.last_cam_ver_)
            => /\ pc'.detection = "ver"
               /\ (det' # det => slot' = slot /\ ver' = ver /\ heap' = heap)
               /\ heap'.detection_out = heap.detection_out
       /\ (pc.prediction = "ver" /\ ver.pf_out = pred.last_pf_ver_)
            => /\ pc'.prediction = "ver"
               /\ (pred' # pred => slot' = slot /\ ver' = ver /\ heap' = heap)
               /\ heap'.prediction_out = heap.prediction_out
       /\ Len(heap'.detection_out) <= det'.last_cam_ver_
       /\ Len(heap'.prediction_out) <= pred'.last_pf_ver_]_vars

\* C32 witness: Detection and Prediction have each consumed a version and
\* published for it, and now stand at the top of their loops with the
\* upstream version unchanged.
C32_Witness ==
    /\ pc.detection = "ver" /\ det.last_cam_ver_ >= 1
    /\ ver.camera = det.last_cam_ver_ /\ Len(heap.detection_out) >= 1
    /\ pc.prediction = "ver" /\ pred.last_pf_ver_ >= 1
    /\ ver.pf_out = pred.last_pf_ver_ /\ Len(heap.prediction_out) >= 1


\* C33: the deadline of the PF worker's k-th tick is start + k * 10 ms
\* whatever the earlier ticks took; a sleep that finds its deadline passed
\* returns at once, and every deadline has its tick: none is skipped.
C33_AbsoluteDeadlines ==
    [][/\ timer'.pc # "start" =>
             timer'.next_tick = timer'.start + timer'.laps * period
       /\ (timer.pc = "sleep" /\ timer.now >= timer.next_tick) =>
             timer'.now = timer.now
       /\ (timer.pc = "sleep" /\ timer.now < timer.next_tick) =>
             timer'.now >= timer.next_tick
       /\ timer'.pc = "top" => timer'.ran = timer'.laps
       /\ timer'.ran <= timer'.laps /\ timer'.laps <= timer'.ran + 1]_vars

\* C33 witness: a second tick has run after a sleep that found its deadline
\* already passed
C33_Witness ==
    /\ timer.late /\ timer.waited = 0
    /\ timer.ran >= 2
    /\ timer.now > timer.next_tick


\* C34: the PF worker uses each published detection snapshot as the
\* measurement of at most one update step: no two published filter results
\* were stepped with the same snapshot.
C34_EachSnapshotMeasuredOnce ==
    \A i, j \in 1..Len(heap.pf_out) :
        (i # j /\ heap.pf_out[i].meas # 0) =>
            heap.pf_out[i].meas # heap.pf_out[j].meas


\* C35: Detection hands a robot to the detection slot only for a frame in
\* which the selector left one or two armors; a frame whose selected armors
\* are empty publishes nothing.
C35_PublishesOnlyWithArmors ==
    [][(fstep = "form" /\ fstep' = "group") =>
           (robot' # NoRobot => Len(sel.selected_armors) \in {1, 2})]_vars


\* C36: every armor handed to form_robot is a camera-frame observation
\* rotated into the world frame exactly once, with the frame's IMU angles:
\* its tvec multiplied by the rotation once, its yaw_rad raised by imu_yaw once.
C36_RotatedExactlyOnce ==
    fstep = "form" =>
        \A i \in 1..Len(sel.selected_armors) :
            \E observed \in {A3, A7, A1near, A1far} :
                sel.selected_armors[i] =
                    cam2world(observed,
                              make_R_cam2world_from_yaw_pitch(gimbal.imu_yaw, gimbal.imu_pitch),
                              gimbal.imu_yaw, gimbal.imu_pitch)


\* C37: after any sequence of open() and close(), open() returns true
\* exactly when the device is open afterwards; an open() that returns false
\* leaves the object closed.
C37_OpenReturnsIsOpen ==
    usb.op = "open" => (usb.ret <=> usb.is_open_)

\* C38: sendData on a device that is not open (never opened, open() returned
\* false, or closed) returns false and writes no byte; it returns true only
\* when all 11 bytes were written, so a short write returns false.
C38_SendNeedsOpenAndFullWrite ==
    usb.op = "sendData" =>
        /\ ~usb.was_usable => (~usb.ret /\ usb.bytes = 0)
        /\ usb.ret => usb.bytes = 11


\* tasks the workers have run
RanTasks == {pool.ran[i].task : i \in 1..Len(pool.ran)}

C40_TasksRunAndDestructorReturns ==
    /\ \A t \in 1..MaxTasks : (pool.submitted >= t) ~> (t \in RanTasks)
    /\ (pool.stop_) ~> (pool.owner = "destroyed" /\ pool.joined = PoolWorkers)

\* C40 witness: a task was submitted while every worker was blocked in
\* cv_.wait, and has been run
C40_Witness ==
    /\ pool.submitted >= 2
    /\ RanTasks = 1..pool.submitted
    /\ \A w \in PoolWorkers : pool.at[w] = "blocked"

====
